---------------------------- MODULE Spec2Model ----------------------------
(***************************************************************************)
(* Model of the document acquisition and structuring engine of the        *)
(* legal-research viewer: the Content Retriever (legislationAPI            *)
(* .getDocument), the Status Classifier, the TOC Builder, the Provision    *)
(* Processor and the provision view of DocumentViewer.                     *)
(*                                                                         *)
(* Strings are sequences of tokens.  A token is a run of characters that   *)
(* the code's patterns either match whole or do not touch, so             *)
(* String.replace and the regular expressions of the source become        *)
(* operations on token sequences ("/data.html" is the two tokens          *)
(* "/data.htm" and "l", because the code's pattern '/data.htm' matches    *)
(* inside it).                                                             *)
(***************************************************************************)
EXTENDS Integers, Sequences, FiniteSets, TLC

VARIABLES
    \* ---- legislationAPI.getDocument (one call) ----
    gdPc,        \* "idle" | "fetch" (await fetch) | "text" (await response.text()) | "done"
    url,         \* the argument of getDocument
    baseUrl,     \* the cleaned base URL (local of getDocument)
    strategyIdx, \* position of the for-loop over strategies (1-based; 0 before the loop)
    inFlight,    \* the fetches issued and not yet settled, as strategy URLs
    fetched,     \* every fetch issued so far, in order, with what became of it
    seen,        \* the body read by the latest iteration (html, doc), digested,
                 \* until the next fetch settles
    result       \* what getDocument returned (NoResult while it runs)

VARIABLES
    \* ---- DocumentViewer: the status classifier ----
    document,       \* the document prop, as far as the viewer reads it: [id, url]
    metadata,       \* xmlDoc.querySelector('Metadata') of the outline (NoMetadata: null)
    documentStatus  \* the documentStatus state (NoStatus: null)

VARIABLES
    \* ---- DocumentViewer: the provision view ----
    tableOfContents,       \* the tableOfContents state
    expandedItems,         \* the expandedItems state (a set of ids)
    selectedProvision,     \* the selectedProvision state (NoProvision: null)
    currentProvisionIndex, \* the currentProvisionIndex state (0-based)
    provisionContent,      \* the provisionContent state
    loadingProvision,      \* the loadingProvision state
    pending,               \* the fetchProvision calls suspended at an await
    calls                  \* how many fetchProvision calls reached their fetch

VARIABLES
    \* ---- DocumentViewer: the outline ----
    xmlDoc,   \* the parsed outline XML handed to parseTOCFromXML
    tocPc     \* "idle" | "fetched" (the outline is parsed, no TOC built yet) | "built"

VARIABLES
    \* ---- DocumentViewer: one provision ----
    body,             \* the Body element found in the fetched provision XML
    commentaries,     \* the Commentary elements of that XML document
    processedContent, \* what processProvisionXML returned (<<>> before it ran)
    ppPc              \* "idle" | "parsed" | "done"

VARIABLES
    \* ---- legislationAPI.parseAtomFeed ----
    feed,     \* the entry elements of the Atom feed, in document order
    results,  \* what parseAtomFeed returned (<<>> before it ran)
    feedPc    \* "idle" | "received" | "parsed"

VARIABLES
    \* ---- DocumentViewer: the fetchTOC effect ----
    tocPending,  \* the fetchTOC calls suspended at an await
    loadingTOC,  \* the loadingTOC state
    tocLog,      \* the fetchTOC call that ended last, and how
    switches     \* how many times the document prop changed

VARIABLES
    \* ---- DocumentViewer: internal links ----
    linkTarget  \* the data-ref of the internal link in the provision shown

VARIABLES
    \* ---- App: the saved state ----
    state,               \* the state of App: folders and documents
    stored,              \* what localStorage holds under STORAGE_KEY
    selectedDocumentId,  \* the selectedDocumentId state (Null: null)
    loads,               \* the handleSelectSearchResult calls awaiting getDocument
    loadsStarted,        \* how many such calls were made
    uuids                \* how many ids crypto.randomUUID() has handed out

VARIABLES
    \* ---- DocumentViewer: the search box of the contents panel ----
    searchQuery  \* the searchQuery state

gdVars == <<gdPc, url, baseUrl, strategyIdx, inFlight, fetched, seen, result>>

tocVars == <<xmlDoc, tocPc>>

viewVars == <<tableOfContents, expandedItems, selectedProvision, currentProvisionIndex,
              provisionContent, loadingProvision, pending, calls>>

stVars == <<document, metadata, documentStatus>>

ppVars == <<body, commentaries, processedContent, ppPc>>

feedVars == <<feed, results, feedPc>>

olVars == <<tocPending, loadingTOC, tocLog, switches>>

linkVars == <<linkTarget>>

appVars == <<state, stored, selectedDocumentId, loads, loadsStarted, uuids>>

filterVars == <<searchQuery>>

vars == <<gdVars, stVars, viewVars, tocVars, ppVars, feedVars, olVars, linkVars, appVars,
          filterVars>>

\* What each part of the engine leaves alone.
gdOthers == <<stVars, viewVars, tocVars, ppVars, feedVars, olVars, linkVars, appVars, filterVars>>
stOthers == <<gdVars, viewVars, tocVars, ppVars, feedVars, olVars, linkVars, appVars, filterVars>>
viewOthers == <<gdVars, stVars, tocVars, ppVars, feedVars, olVars, linkVars, appVars, filterVars>>
tocOthers == <<gdVars, stVars, ppVars, feedVars, olVars, linkVars, appVars, filterVars>>
ppOthers == <<gdVars, stVars, viewVars, tocVars, feedVars, olVars, linkVars, appVars, filterVars>>
feedOthers == <<gdVars, stVars, viewVars, tocVars, ppVars, olVars, linkVars, appVars, filterVars>>
olOthers ==
    <<gdVars, tocVars, ppVars, feedVars, linkVars, appVars, filterVars, metadata, selectedProvision,
      currentProvisionIndex, provisionContent, loadingProvision, pending, calls>>

appOthers ==
    <<gdVars, stVars, viewVars, tocVars, ppVars, feedVars, olVars, linkVars, filterVars>>
filterOthers == <<gdVars, stVars, tocVars, ppVars, feedVars, olVars, linkVars, appVars>>

-----------------------------------------------------------------------------
(* Strings as token sequences *)

\* s without its first occurrence of the token sequence pat (String.replace
\* with a string pattern replaces the first occurrence only).
RECURSIVE ReplaceFirst(_, _)
ReplaceFirst(s, pat) ==
    IF Len(s) < Len(pat) THEN s
    ELSE IF SubSeq(s, 1, Len(pat)) = pat THEN SubSeq(s, Len(pat) + 1, Len(s))
    ELSE <<Head(s)>> \o ReplaceFirst(Tail(s), pat)

\* s without every token of toks (String.replace with a /g regular expression
\* whose matches are exactly the tokens of toks).
ReplaceAllTokens(s, toks) == SelectSeq(s, LAMBDA t : t \notin toks)

\* The tokens matched by /\/\d{4}-\d{2}-\d{2}/.
DateTokens == {"/2026-01-06"}

\* The tokens matched by /\/enacted/.
EnactedTokens == {"/enacted"}

\* The base identifier of one instrument, LEGISLATION_BASE + type/year/number.
BaseId == <<"https://www.legislation.gov.uk/ukpga/2006/46">>

\* The URL shapes getDocument is called with: the base identifier followed by
\* at most one of the suffixes the cleaning knows, or by two of them.
Suffixes ==
    { <<"/contents">>, <<"/enacted">>, <<"/2026-01-06">>,
      <<"/data.htm">>, <<"/data.htm", "l">> }

InputUrls ==
    {BaseId} \cup {BaseId \o s : s \in Suffixes}
             \cup {BaseId \o <<"/enacted", "/contents">>,
                   BaseId \o <<"/contents", "/contents">>}

-----------------------------------------------------------------------------
(* legislationAPI.getDocument *)

\* html.length < 30000 in the version-selection test.
InterstitialMaxSize == 30000

\* textContent.length > 1000 and finalHtml.length > 1000.
MinContentLength == 1000

\* '#viewLegContents', '#content', '.LegContent', 'article', 'main'.
selectors == <<"#viewLegContents", "#content", ".LegContent", "article", "main">>

\* baseUrl as getDocument derives it from its argument.
CleanUrl(u) ==
    LET a == ReplaceFirst(u, <<"/contents">>)
        b == ReplaceFirst(a, <<"/data.htm">>)
        c == ReplaceFirst(b, <<"/data.htm", "l">>)
        d == ReplaceAllTokens(c, DateTokens)
    IN  ReplaceAllTokens(d, EnactedTokens)

\* The strategies array: the candidate URLs in the order they are tried.
StrategiesBug(b) == <<b \o <<"/contents">>, b \o <<"/enacted">>, b>>
Strategies(b) == <<b, b \o <<"/enacted">>, b \o <<"/contents">>>>

\* bodyText.includes(needle), bodyText given as the set of marker phrases in
\* it; the phrase "Original (As enacted)" contains "Original".
Includes(text, needle) ==
    \/ needle \in text
    \/ needle = "Original" /\ "Original (As enacted)" \in text

\* What a response body can look like to getDocument:
\*   versionEl  an element matches '.LegVersions' or '[class*="version"]'
\*   bodyText   the marker phrases in doc.body.textContent
\*   htmlLen    html.length
\*   selText    per selector, the textContent length of the first element it
\*              matches (0: no element, or an empty one)
\*   finalLen   the length of the chosen element's innerHTML after the
\*              unwanted elements are removed
\*   skip       that innerHTML includes 'Skip to main content'
\*   finalMarkers  that innerHTML still holds the three marker phrases (text
\*              of the element, so the phrases are in bodyText as well)
BodyTexts ==
    { t \in SUBSET {"Latest available", "Point in Time", "Original (As enacted)"} : TRUE }
      \cup { {"Latest available", "Point in Time", "Original"} }

TextLens == {0, MinContentLength + 1}

MarkerPhrases == {"Latest available", "Point in Time", "Original (As enacted)"}

Payloads ==
    { p \in [ versionEl : BOOLEAN,
              bodyText  : BodyTexts,
              htmlLen   : {InterstitialMaxSize - 1, InterstitialMaxSize},
              selText   : [1..Len(selectors) -> TextLens],
              finalLen  : {MinContentLength, MinContentLength + 1},
              skip      : BOOLEAN,
              finalMarkers : BOOLEAN ] :
        p.finalMarkers => MarkerPhrases \subseteq p.bodyText }

\* hasVersionUI: the version-selection page test.
HasVersionUIBug(p) ==
    p.versionEl
HasVersionUI(p) ==
    \/ p.versionEl
    \/ /\ Includes(p.bodyText, "Latest available")
       /\ Includes(p.bodyText, "Point in Time")
       /\ Includes(p.bodyText, "Original")
       /\ p.htmlLen < InterstitialMaxSize

\* The selector loop: the first selector whose element has more than
\* MinContentLength characters of text; 0 when there is none (content = null).
ChosenSelector(p) ==
    LET hits == { i \in 1..Len(selectors) : p.selText[i] > MinContentLength }
    IN  IF hits = {} THEN 0 ELSE CHOOSE i \in hits : \A j \in hits : i <= j

\* The final validation of the cleaned innerHTML.
FinalOk(p) == p.finalLen > MinContentLength /\ ~p.skip

\* What one loop iteration makes of an ok response.
Verdict(p) ==
    IF HasVersionUI(p) THEN "interstitial"
    ELSE IF ChosenSelector(p) = 0 THEN "noselector"
    ELSE IF ~FinalOk(p) THEN "invalid"
    ELSE "accepted"

\* content.innerHTML of the accepted element, as far as the model tells
\* contents apart: which candidate it came from, which selector chose it.
FinalHtml(cand, p) ==
    [from |-> cand, selector |-> ChosenSelector(p), len |-> p.finalLen,
     markers |-> p.finalMarkers]

NoResult == [kind |-> "none"]
\* The three return statements of getDocument.
Success(html) == [kind |-> "success", html |-> html]
AllFailed(u, b) == [kind |-> "allFailed", original |-> u, href |-> b]
ErrorPage(u) == [kind |-> "error", href |-> u]

\* What the claims need of a body that was read: the interstitial test of
\* the specification (all three phrases, under the size threshold), and
\* whether some selector matched with enough text.
Digest(p) ==
    [ markers |-> {"Latest available", "Point in Time", "Original (As enacted)"} \subseteq p.bodyText,
      small   |-> p.htmlLen < InterstitialMaxSize,
      matched |-> ChosenSelector(p) # 0 ]
NoDigest == [markers |-> FALSE, small |-> FALSE, matched |-> FALSE]

Fetch(i) == [cand |-> Strategies(baseUrl)[i], outcome |-> "pending"]

Settle(outcome) == [fetched EXCEPT ![Len(fetched)].outcome = outcome]

InitGetDocument ==
    /\ gdPc = "idle"
    /\ url = <<>>
    /\ baseUrl = <<>>
    /\ strategyIdx = 0
    /\ inFlight = {}
    /\ fetched = <<>>
    /\ seen = NoDigest
    /\ result = NoResult

\* getDocument(u) up to its first await: clean the URL, build the
\* strategies and issue the fetch of the first one.
GetDocument(u) ==
    /\ gdPc = "idle"
    /\ url' = u
    /\ baseUrl' = CleanUrl(u)
    /\ strategyIdx' = 1
    /\ inFlight' = {Strategies(CleanUrl(u))[1]}
    /\ fetched' = <<[cand |-> Strategies(CleanUrl(u))[1], outcome |-> "pending"]>>
    /\ gdPc' = "fetch"
    /\ UNCHANGED <<seen, result, gdOthers>>

\* `continue`, or falling off the end of the loop body: the next strategy's
\* fetch is issued, or the loop is over and the all-failed page is returned.
NextStrategy(log) ==
    IF strategyIdx < Len(Strategies(baseUrl))
    THEN /\ strategyIdx' = strategyIdx + 1
         /\ inFlight' = {Strategies(baseUrl)[strategyIdx + 1]}
         /\ fetched' = Append(log, Fetch(strategyIdx + 1))
         /\ gdPc' = "fetch"
         /\ UNCHANGED result
    ELSE /\ result' = AllFailed(url, baseUrl)
         /\ inFlight' = {}
         /\ fetched' = log
         /\ gdPc' = "done"
         /\ UNCHANGED strategyIdx

\* The catch block: any rejection inside the try ends the call.
Caught(log) ==
    /\ result' = ErrorPage(url)
    /\ inFlight' = {}
    /\ fetched' = log
    /\ gdPc' = "done"
    /\ UNCHANGED strategyIdx

\* await fetch(proxyUrl) rejects (network error).
FetchRejects ==
    /\ gdPc = "fetch"
    /\ Caught(Settle("threw"))
    /\ seen' = NoDigest
    /\ UNCHANGED <<url, baseUrl, gdOthers>>

\* await fetch(proxyUrl) resolves with !response.ok.
FetchNotOk ==
    /\ gdPc = "fetch"
    /\ NextStrategy(Settle("notok"))
    /\ seen' = NoDigest
    /\ UNCHANGED <<url, baseUrl, gdOthers>>

\* await fetch(proxyUrl) resolves with response.ok: the body is awaited.
FetchOk ==
    /\ gdPc = "fetch"
    /\ gdPc' = "text"
    /\ inFlight' = {}
    /\ seen' = NoDigest
    /\ UNCHANGED <<url, baseUrl, strategyIdx, fetched, result, gdOthers>>

\* await response.text() rejects.
TextRejects ==
    /\ gdPc = "text"
    /\ Caught(Settle("threw"))
    /\ seen' = NoDigest
    /\ UNCHANGED <<url, baseUrl, gdOthers>>

\* (mutant) the loop lacks its early return: an accepted candidate is kept
\* as the result and the next strategy is fetched all the same.
TextResolvesNoReturn ==
    /\ gdPc = "text"
    /\ \E p \in Payloads :
          /\ seen' = Digest(p)
          /\ IF Verdict(p) = "accepted" /\ strategyIdx < Len(Strategies(baseUrl))
             THEN /\ result' = Success(FinalHtml(Strategies(baseUrl)[strategyIdx], p))
                  /\ strategyIdx' = strategyIdx + 1
                  /\ inFlight' = {Strategies(baseUrl)[strategyIdx + 1]}
                  /\ fetched' = Append(Settle("accepted"), Fetch(strategyIdx + 1))
                  /\ gdPc' = "fetch"
             ELSE IF Verdict(p) = "accepted"
             THEN /\ result' = Success(FinalHtml(Strategies(baseUrl)[strategyIdx], p))
                  /\ fetched' = Settle("accepted")
                  /\ gdPc' = "done"
                  /\ UNCHANGED <<strategyIdx, inFlight>>
             ELSE NextStrategy(Settle(Verdict(p)))
    /\ UNCHANGED <<url, baseUrl, gdOthers>>

\* await response.text() resolves with a body: the rest of the iteration.
TextResolves ==
    /\ gdPc = "text"
    /\ \E p \in Payloads :
          /\ seen' = Digest(p)
          /\ IF Verdict(p) = "accepted"
             THEN /\ result' = Success(FinalHtml(Strategies(baseUrl)[strategyIdx], p))
                  /\ fetched' = Settle("accepted")
                  /\ gdPc' = "done"
                  /\ UNCHANGED <<strategyIdx, inFlight>>
             ELSE NextStrategy(Settle(Verdict(p)))
    /\ UNCHANGED <<url, baseUrl, gdOthers>>

NextGetDocument ==
    \/ \E u \in InputUrls : GetDocument(u)
    \/ FetchRejects
    \/ FetchNotOk
    \/ FetchOk
    \/ TextRejects
    \/ TextResolves

-----------------------------------------------------------------------------
(* DocumentViewer: extractStatusFromMetadata *)

\* The largest number of Effect elements drawn inside UnappliedEffects.
MaxEffects == 2

NoMetadata == [present |-> FALSE]
NoStatus == [label |-> "none"]

\* The Metadata element, as far as the classifier queries it:
\*   enacted           an EnactmentDate or Made element
\*   modified          a Modified element
\*   unappliedEffects  an UnappliedEffects element
\*   effects           the number of Effect elements inside UnappliedEffects
MetadataBlocks ==
    { md \in [ present : {TRUE}, enacted : BOOLEAN, modified : BOOLEAN,
               unappliedEffects : BOOLEAN, effects : 0..MaxEffects ] :
        ~md.unappliedEffects => md.effects = 0 }

\* String.toLowerCase on the tokens of a URL.
ToLowerCase(u) == [i \in 1..Len(u) |-> IF u[i] = "/Enacted" THEN "/enacted" ELSE u[i]]

\* The URLs a saved document can carry.
DocumentUrls == InputUrls \cup {BaseId \o <<"/Enacted">>}

\* document?.url.toLowerCase().includes('/enacted')
IsEnacted(doc) == \E i \in 1..Len(doc.url) : ToLowerCase(doc.url)[i] = "/enacted"

\* metadata.querySelector('UnappliedEffects Effect')
HasModifications(md) == md.unappliedEffects /\ md.effects > 0

StatusInfo(label, tooltip) == [label |-> label, tooltip |-> tooltip]

\* (mutant) the Modified test ahead of the unapplied-effects test.
ExtractStatusModifiedFirst(md, doc) ==
    IF ~md.present THEN StatusInfo("Unknown", "not available")
    ELSE IF IsEnacted(doc)
    THEN StatusInfo("As Enacted", IF md.enacted THEN "enacted on" ELSE "initially made")
    ELSE IF md.modified THEN StatusInfo("Revised", "revised")
    ELSE IF HasModifications(md) THEN StatusInfo("Revised (Changes Pending)", "outstanding")
    ELSE StatusInfo("Latest Available", "latest")

\* extractStatusFromMetadata(metadata), reading document.url.
ExtractStatusFromMetadata(md, doc) ==
    IF ~md.present THEN StatusInfo("Unknown", "not available")
    ELSE IF IsEnacted(doc)
    THEN StatusInfo("As Enacted", IF md.enacted THEN "enacted on" ELSE "initially made")
    ELSE IF HasModifications(md) THEN StatusInfo("Revised (Changes Pending)", "outstanding")
    ELSE IF md.modified THEN StatusInfo("Revised", "revised")
    ELSE StatusInfo("Latest Available", "latest")

\* A document is open and the Metadata element of its outline has been
\* looked up; nothing is classified yet.
InitStatus ==
    /\ document \in [id : {"A"}, url : DocumentUrls]
    /\ metadata \in {NoMetadata} \cup MetadataBlocks
    /\ documentStatus = NoStatus

\* const status = extractStatusFromMetadata(metadata); setDocumentStatus(status)
SetDocumentStatus ==
    /\ documentStatus = NoStatus
    /\ documentStatus' = ExtractStatusFromMetadata(metadata, document)
    /\ UNCHANGED <<document, metadata, stOthers>>

NextStatus == SetDocumentStatus

-----------------------------------------------------------------------------
(* DocumentViewer: fetchProvision and the provision view *)

\* The most fetchProvision calls that reach their fetch in one run.
MaxCalls == 3

NoProvision == [id |-> <<>>]

TOCItem(id, number, title, u, children, level) ==
    [id |-> id, number |-> number, title |-> title, url |-> u,
     children |-> children, level |-> level]

\* The tables of contents the view is opened with: bare sections, and a
\* section followed by a Part with two children, the last one without a
\* DocumentURI.
Section1 == TOCItem(<<"section-", "1">>, <<"1">>, <<"Overview">>, BaseId \o <<"/section/1">>, <<>>, 0)
Section2(level) ==
    TOCItem(<<"section-", "2">>, <<"2">>, <<"Scope">>, BaseId \o <<"/section/2">>, <<>>, level)
Section3(level) == TOCItem(<<"section-", "3">>, <<"3">>, <<"Repeals">>, <<>>, <<>>, level)
Part1 == TOCItem(<<"part-", "1">>, <<"Part 1">>, <<"General">>, BaseId \o <<"/part/1">>,
                 <<Section2(1), Section3(1)>>, 0)

ViewerTOCs == { <<Section1, Section2(0), Section3(0)>>, <<Section1, Part1>> }

\* flatProvisions: every item followed by its descendants, in order.
RECURSIVE Flatten(_)
Flatten(items) ==
    IF items = <<>> THEN <<>>
    ELSE <<Head(items)>> \o Flatten(Head(items).children) \o Flatten(Tail(items))

flatProvisions == Flatten(tableOfContents)

\* The globalIndex the contents panel hands to renderTOCItem for root i:
\* the running globalIdx, advanced by 1 + item.children.length per root.
RECURSIVE StartIdx(_, _)
StartIdx(items, i) ==
    IF i = 1 THEN 0 ELSE StartIdx(items, i - 1) + 1 + Len(items[i - 1].children)

\* The clickable rows of the contents panel as <<item, globalIndex>>: every
\* root, and the children of the expanded roots (globalIndex + 1 + idx).
RenderedRows ==
    { <<tableOfContents[i], StartIdx(tableOfContents, i)>> : i \in 1..Len(tableOfContents) }
    \cup
    UNION { { <<tableOfContents[i].children[j], StartIdx(tableOfContents, i) + 1 + (j - 1)>> :
                j \in 1..Len(tableOfContents[i].children) } :
            i \in { r \in 1..Len(tableOfContents) : tableOfContents[r].id \in expandedItems } }

\* item.url.includes('/data.xml') ? item.url : `${item.url}/data.xml`
XmlUrl(item) ==
    IF \E i \in 1..Len(item.url) : item.url[i] = "/data.xml"
    THEN item.url ELSE item.url \o <<"/data.xml">>

\* What setProvisionContent is given.
NoContent == [kind |-> "empty"]
\* processProvisionXML(body, xmlDoc) of the XML fetched from xmlUrl
Processed(item) == [kind |-> "content", src |-> XmlUrl(item)]
\* '<p ...>Content not available</p>'
NotAvailable == [kind |-> "unavailable"]
\* the 'Unable to Load' block with a link to item.url
UnableToLoad(item) == [kind |-> "failure", href |-> item.url]

InitView ==
    /\ tableOfContents \in ViewerTOCs
    /\ expandedItems = {}
    /\ selectedProvision = NoProvision
    /\ currentProvisionIndex = 0
    /\ provisionContent = NoContent
    /\ loadingProvision = FALSE
    /\ pending = {}
    /\ calls = 0

\* (variant) fetchProvision without the test of item.url: the fetch is
\* issued for every item.
FetchProvisionAnyUrl(item, index) ==
    /\ selectedProvision' = item
    /\ currentProvisionIndex' = index
    /\ calls < MaxCalls
    /\ calls' = calls + 1
    /\ pending' = pending \cup {[n |-> calls + 1, item |-> item, stage |-> "fetch"]}
    /\ loadingProvision' = TRUE
    /\ UNCHANGED <<provisionContent, tableOfContents, expandedItems, viewOthers>>

\* fetchProvision(item, index) up to its first await: the selection is set,
\* and either the call fails on the spot (no URL: catch and finally run
\* before it returns) or its fetch is issued.
FetchProvision(item, index) ==
    /\ selectedProvision' = item
    /\ currentProvisionIndex' = index
    /\ IF item.url = <<>>
       THEN /\ provisionContent' = UnableToLoad(item)
            /\ loadingProvision' = FALSE
            /\ UNCHANGED <<pending, calls>>
       ELSE /\ calls < MaxCalls
            /\ calls' = calls + 1
            /\ pending' = pending \cup {[n |-> calls + 1, item |-> item, stage |-> "fetch"]}
            /\ loadingProvision' = TRUE
            /\ UNCHANGED provisionContent
    /\ UNCHANGED <<tableOfContents, expandedItems, viewOthers>>

\* A click on a row of the contents panel: fetchProvision(item, globalIndex).
ClickProvision ==
    \E row \in RenderedRows : FetchProvision(row[1], row[2])

\* The chevron of a row with children: toggleExpand(item.id).
ToggleExpand ==
    \E i \in 1..Len(tableOfContents) :
        /\ tableOfContents[i].children # <<>>
        /\ expandedItems' =
              IF tableOfContents[i].id \in expandedItems
              THEN expandedItems \ {tableOfContents[i].id}
              ELSE expandedItems \cup {tableOfContents[i].id}
        /\ UNCHANGED <<tableOfContents, selectedProvision, currentProvisionIndex,
                       provisionContent, loadingProvision, pending, calls, viewOthers>>

\* navigateProvision('prev' | 'next')
NavigateProvision ==
    \E d \in {-1, 1} :
        LET newIndex == currentProvisionIndex + d
        IN  /\ newIndex >= 0 /\ newIndex < Len(flatProvisions)
            /\ FetchProvision(flatProvisions[newIndex + 1], newIndex)

\* (variant) a catch block that also collapses the contents panel.
ProvisionFailsCollapsing(call) ==
    /\ provisionContent' = UnableToLoad(call.item)
    /\ loadingProvision' = FALSE
    /\ pending' = pending \ {call}
    /\ expandedItems' = {}
    /\ UNCHANGED <<tableOfContents, selectedProvision, currentProvisionIndex,
                   calls, viewOthers>>

\* The catch and finally blocks of a suspended call.
ProvisionFails(call) ==
    /\ provisionContent' = UnableToLoad(call.item)
    /\ loadingProvision' = FALSE
    /\ pending' = pending \ {call}
    /\ UNCHANGED <<tableOfContents, expandedItems, selectedProvision,
                   currentProvisionIndex, calls, viewOthers>>

\* await fetch(...) rejects, or resolves with !response.ok.
ProvisionFetchFails ==
    \E call \in pending : call.stage = "fetch" /\ ProvisionFails(call)

\* await fetch(...) resolves with response.ok: the body is awaited.
ProvisionFetchOk ==
    \E call \in pending :
        /\ call.stage = "fetch"
        /\ pending' = (pending \ {call}) \cup {[call EXCEPT !.stage = "text"]}
        /\ UNCHANGED <<tableOfContents, expandedItems, selectedProvision,
                       currentProvisionIndex, provisionContent, loadingProvision,
                       calls, viewOthers>>

\* await response.text() rejects.
ProvisionTextRejects ==
    \E call \in pending : call.stage = "text" /\ ProvisionFails(call)

\* await response.text() resolves: the XML is parsed, and its Body or
\* Schedules element, if it has one, is processed and shown.
ProvisionTextResolves ==
    \E call \in pending, hasBody \in BOOLEAN :
        /\ call.stage = "text"
        /\ provisionContent' = IF hasBody THEN Processed(call.item) ELSE NotAvailable
        /\ loadingProvision' = FALSE
        /\ pending' = pending \ {call}
        /\ UNCHANGED <<tableOfContents, expandedItems, selectedProvision,
                       currentProvisionIndex, calls, viewOthers>>

NextView ==
    \/ ClickProvision
    \/ ToggleExpand
    \/ NavigateProvision
    \/ ProvisionFetchFails
    \/ ProvisionFetchOk
    \/ ProvisionTextRejects
    \/ ProvisionTextResolves

-----------------------------------------------------------------------------
(* DocumentViewer: parseTOCFromXML *)

\* The most elements an outline is drawn with (the Contents root apart).
MaxNodes == 5

\* An outline is the sequence of the elements below its Contents root in
\* document order, each with its depth below Contents (1: a child of
\* Contents) and its ContentRef attribute (<<>>: none).  ContentsNumber,
\* ContentsTitle and DocumentURI of an element are told by its position.
ContentsTags == {"ContentsItem", "ContentsPart", "ContentsSchedule", "ContentsPblock"}

\* The parent of element i: the nearest earlier element one level up; 0 is
\* the Contents root.
Parent(doc, i) ==
    IF doc[i].depth = 1 THEN 0
    ELSE LET ups == { j \in 1..(i - 1) : doc[j].depth = doc[i].depth - 1 }
         IN  CHOOSE j \in ups : \A k \in ups : k <= j

TagOf(doc, i) == IF i = 0 THEN "Contents" ELSE doc[i].tag

\* Well-formed outlines: depths form a tree in document order; a
\* ContentsItem holds no other outline element, a ContentsSchedule sits
\* below Contents, a ContentsPart below Contents or a ContentsSchedule, a
\* ContentsPblock below Contents, a Part or a Schedule.
WellFormedAt(doc, i) ==
    /\ IF i = 1 THEN doc[i].depth = 1 ELSE doc[i].depth <= doc[i - 1].depth + 1
    /\ LET up == TagOf(doc, Parent(doc, i))
       IN  CASE doc[i].tag = "ContentsSchedule" -> up = "Contents"
             [] doc[i].tag = "ContentsPart" -> up \in {"Contents", "ContentsSchedule"}
             [] doc[i].tag = "ContentsPblock" ->
                    up \in {"Contents", "ContentsPart", "ContentsSchedule"}
             [] OTHER -> up # "ContentsItem"

\* Either no element of an outline carries a ContentRef or each carries its own.
RECURSIVE OutlinesOfLen(_)
OutlinesOfLen(n) ==
    IF n = 0 THEN {<<>>}
    ELSE UNION { { d \in { Append(prev, [tag |-> t, depth |-> k, ref |-> <<>>]) :
                             t \in ContentsTags,
                             k \in 1..(IF n = 1 THEN 1 ELSE prev[n - 1].depth + 1) } :
                     WellFormedAt(d, n) } :
                 prev \in OutlinesOfLen(n - 1) }

WithRefs(shape, refs) ==
    [i \in 1..Len(shape) |->
        [tag |-> shape[i].tag, depth |-> shape[i].depth,
         ref |-> IF refs THEN <<"ref-", ToString(i)>> ELSE <<>>]]

Outlines ==
    { WithRefs(shape, refs) :
        shape \in UNION { OutlinesOfLen(n) : n \in 0..MaxNodes }, refs \in BOOLEAN }

\* item.getAttribute('DocumentURI')
DocumentURI(i) == BaseId \o <<"/id/", ToString(i)>>

\* The text of the element's ContentsNumber and ContentsTitle; both carry
\* an editorial footnote marker.
ContentsNumber(i) == <<"[F12]", ToString(i)>>
ContentsTitle(i) == <<"Title ", ToString(i), "[F3]">>

\* text.replace(/\[F\d+\]/g, '').trim()
StripMarkers(text) == ReplaceAllTokens(text, {"[F12]", "[F3]"})

\* querySelectorAll: the elements of doc that match, in document order.
QuerySelectorAll(doc, matching) ==
    SelectSeq([i \in 1..Len(doc) |-> i], LAMBDA i : i \in matching)

\* One TOC item built from element i: its ContentRef or the id synthesized
\* from its position in the pass.
ItemFrom(doc, i, synthesized, children, level) ==
    TOCItem(IF doc[i].ref # <<>> THEN doc[i].ref ELSE synthesized,
            StripMarkers(ContentsNumber(i)), StripMarkers(ContentsTitle(i)),
            DocumentURI(i), children, level)

\* ':scope > ContentsItem, :scope > ContentsPblock > ContentsItem'
ScopedItems(doc, scope) ==
    QuerySelectorAll(doc, { j \in 1..Len(doc) :
        /\ doc[j].tag = "ContentsItem"
        /\ \/ Parent(doc, j) = scope
           \/ /\ Parent(doc, j) # 0
              /\ doc[Parent(doc, j)].tag = "ContentsPblock"
              /\ Parent(doc, Parent(doc, j)) = scope })

\* A Part or Schedule item with its nested items; prefix and itemPrefix
\* are the id stems of the pass.
ContainerFrom(doc, p, index, prefix, itemPrefix) ==
    LET inner == ScopedItems(doc, p)
    IN  ItemFrom(doc, p, <<prefix, ToString(index)>>,
                 [k \in 1..Len(inner) |->
                     ItemFrom(doc, inner[k],
                              <<itemPrefix, ToString(index), "-", ToString(k - 1)>>,
                              <<>>, 1)],
                 0)

\* (mutant) the earlier parseTOCFromXML: Parts and Schedules in one pass in
\* document order, and the bare items only when there is neither.
ParseTOCOnePass(doc) ==
    LET both == QuerySelectorAll(doc, { i \in 1..Len(doc) :
                    doc[i].tag \in {"ContentsPart", "ContentsSchedule"} })
        top == QuerySelectorAll(doc, { i \in 1..Len(doc) :
                    doc[i].tag = "ContentsItem" /\ Parent(doc, i) = 0 })
    IN  IF both # <<>>
        THEN [k \in 1..Len(both) |-> ContainerFrom(doc, both[k], k - 1, "part-", "item-")]
        ELSE [k \in 1..Len(top) |->
                 ItemFrom(doc, top[k], <<"section-", ToString(k - 1)>>, <<>>, 0)]

\* parseTOCFromXML(xmlDoc): three passes, 'Contents > ContentsItem', then
\* every ContentsPart, then every ContentsSchedule.
ParseTOCFromXML(doc) ==
    LET topLevelSections == QuerySelectorAll(doc, { i \in 1..Len(doc) :
                                doc[i].tag = "ContentsItem" /\ Parent(doc, i) = 0 })
        contentsParts == QuerySelectorAll(doc, { i \in 1..Len(doc) : doc[i].tag = "ContentsPart" })
        contentsSchedules == QuerySelectorAll(doc,
                                 { i \in 1..Len(doc) : doc[i].tag = "ContentsSchedule" })
    IN  [k \in 1..Len(topLevelSections) |->
            ItemFrom(doc, topLevelSections[k], <<"section-", ToString(k - 1)>>, <<>>, 0)]
        \o
        [k \in 1..Len(contentsParts) |->
            ContainerFrom(doc, contentsParts[k], k - 1, "part-", "item-")]
        \o
        [k \in 1..Len(contentsSchedules) |->
            ContainerFrom(doc, contentsSchedules[k], k - 1, "schedule-", "item-schedule-")]

\* The outline has been fetched and parsed as XML.
InitTOC ==
    /\ xmlDoc \in Outlines
    /\ tocPc = "fetched"

\* const toc = parseTOCFromXML(xmlDoc); setTableOfContents(toc);
\* setExpandedItems(new Set())
SetTableOfContents ==
    /\ tocPc = "fetched"
    /\ tableOfContents' = ParseTOCFromXML(xmlDoc)
    /\ expandedItems' = {}
    /\ tocPc' = "built"
    /\ UNCHANGED <<xmlDoc, selectedProvision, currentProvisionIndex, provisionContent,
                   loadingProvision, pending, calls, tocOthers>>

NextTOC == SetTableOfContents

-----------------------------------------------------------------------------
(* DocumentViewer: outlines in which only some elements carry a ContentRef *)

\* The most elements such an outline is drawn with.
MaxMixedNodes == 3

\* The ContentRef an element carries when it has one: the id of what it
\* lists, numbered from 1 within its kind as the instrument numbers it.
OwnContentRef(shape, i) ==
    LET n == Cardinality({ j \in 1..i : shape[j].tag = shape[i].tag })
    IN  CASE shape[i].tag = "ContentsItem"     -> <<"section-", ToString(n)>>
          [] shape[i].tag = "ContentsPart"     -> <<"part-", ToString(n)>>
          [] shape[i].tag = "ContentsSchedule" -> <<"schedule-", ToString(n)>>
          [] OTHER                             -> <<"crossheading-", ToString(n)>>

MixedOutlines ==
    { [i \in 1..Len(shape) |->
          [tag |-> shape[i].tag, depth |-> shape[i].depth,
           ref |-> IF i \in withRef THEN OwnContentRef(shape, i) ELSE <<>>]] :
        shape \in UNION { OutlinesOfLen(n) : n \in 0..MaxMixedNodes },
        withRef \in SUBSET (1..MaxMixedNodes) }

\* Such an outline has been fetched and parsed as XML.
InitMixedTOC ==
    /\ xmlDoc \in MixedOutlines
    /\ tocPc = "fetched"

-----------------------------------------------------------------------------
(* DocumentViewer: processProvisionXML *)

\* A fragment is the sequence of its nodes in document order.  Each node
\* has a tag ("#text" for a text node), its depth below the fragment root
\* (the root, node 1, has depth 0), its attributes as name-value pairs, its
\* characters when it is a text node, and the position it had in the
\* fetched fragment (0 for a node the processor creates).
Element(tag, depth, attrs) ==
    [tag |-> tag, depth |-> depth, attrs |-> attrs, text |-> <<>>, nid |-> 0]

TextNode(depth, text) ==
    [tag |-> "#text", depth |-> depth, attrs |-> {}, text |-> text, nid |-> 0]

\* The last node of the subtree of node i.
SubtreeEnd(doc, i) ==
    LET later == { k \in (i + 1)..Len(doc) : doc[k].depth <= doc[i].depth }
    IN  IF later = {} THEN Len(doc)
        ELSE (CHOOSE k \in later : \A m \in later : k <= m) - 1

\* el.parentNode: 0 for the root.
ParentNode(doc, i) ==
    IF i = 1 THEN 0
    ELSE LET ups == { j \in 1..(i - 1) : doc[j].depth = doc[i].depth - 1 }
         IN  CHOOSE j \in ups : \A k \in ups : k <= j

\* el.closest(tags): el or its nearest ancestor with one of the tags, 0 if none.
RECURSIVE Closest(_, _, _)
Closest(doc, i, tags) ==
    IF i = 0 THEN 0
    ELSE IF doc[i].tag \in tags THEN i
    ELSE Closest(doc, ParentNode(doc, i), tags)

\* el.textContent: the characters of the text nodes below el, in order.
RECURSIVE JoinText(_, _, _)
JoinText(doc, i, j) ==
    IF i > j THEN <<>>
    ELSE (IF doc[i].tag = "#text" THEN doc[i].text ELSE <<>>) \o JoinText(doc, i + 1, j)

TextContent(doc, i) == JoinText(doc, i, SubtreeEnd(doc, i))

\* el.getAttribute(name); "" stands for null (both are falsy).
GetAttribute(node, name) ==
    IF \E a \in node.attrs : a[1] = name
    THEN (CHOOSE a \in node.attrs : a[1] = name)[2]
    ELSE ""

\* parent.replaceChild(nodes, el): the subtree of node i gives way to nodes.
ReplaceChild(doc, i, nodes) ==
    SubSeq(doc, 1, i - 1) \o nodes \o SubSeq(doc, SubtreeEnd(doc, i) + 1, Len(doc))

\* nodes, moved d levels down.
Indent(nodes, d) == [k \in 1..Len(nodes) |-> [nodes[k] EXCEPT !.depth = @ + d]]

\* ---- the commentary references and their accordions ----

ProvisionTags == {"P1", "P2", "P3", "P4"}

\* title, from commentary.getAttribute('Type')
CommentaryTitle(type) ==
    IF type \in {"F", "M"} THEN "Textual Amendment"
    ELSE IF type \in {"I", "C"} THEN "Commencement Information"
    ELSE "Note"

SvgAttributes ==
    { <<"width", "16">>, <<"height", "16">>, <<"viewBox", "0 0 24 24">>, <<"fill", "none">>,
      <<"stroke", "currentColor">>, <<"stroke-width", "2">> }

\* The elements of accordionHtml as div.innerHTML parses them (white space
\* between the tags left out).
AccordionHtml(title, text) ==
    << Element("div", 0, {<<"class", "amendment-accordion">>}),
       Element("button", 1, {<<"class", "accordion-button">>, <<"onclick", "toggle">>}),
       Element("span", 2, {<<"style", "display: flex; align-items: center; gap: 8px;">>}),
       Element("svg", 3, SvgAttributes),
       Element("path", 4, {<<"d", "M14 2H6">>}),
       Element("polyline", 4, {<<"points", "14 2 14 8 20 8">>}),
       Element("line", 4, {<<"x1", "16">>, <<"y1", "13">>, <<"x2", "8">>, <<"y2", "13">>}),
       Element("line", 4, {<<"x1", "16">>, <<"y1", "17">>, <<"x2", "8">>, <<"y2", "17">>}),
       Element("polyline", 4, {<<"points", "10 9 9 9 8 9">>}),
       TextNode(3, <<title>>),
       Element("svg", 2, SvgAttributes),
       Element("polyline", 3, {<<"points", "9 18 15 12 9 6">>}),
       Element("div", 1, {<<"class", "accordion-content">>, <<"style", "display: none;">>}),
       TextNode(2, text) >>

\* accordionsToInsert: one entry for every CommentaryRef, in document
\* order, that names a commentary of the document and lies in a provision.
AccordionsToInsert(doc, table) ==
    LET commentaryRefs ==
            QuerySelectorAll(doc, { i \in 2..Len(doc) :
                /\ doc[i].tag = "CommentaryRef"
                /\ GetAttribute(doc[i], "Ref") # ""
                /\ \E c \in table : c.id = GetAttribute(doc[i], "Ref")
                /\ Closest(doc, i, ProvisionTags) # 0 })
    IN  [k \in 1..Len(commentaryRefs) |->
            LET ref == commentaryRefs[k]
                commentary == CHOOSE c \in table : c.id = GetAttribute(doc[ref], "Ref")
            IN  [provision |-> doc[Closest(doc, ref, ProvisionTags)].nid,
                 html |-> AccordionHtml(CommentaryTitle(commentary.type), commentary.text)]]

\* ref.remove() for every CommentaryRef.
RemoveCommentaryRefs(doc) ==
    LET kept == QuerySelectorAll(doc, { i \in 1..Len(doc) :
                    i = 1 \/ Closest(doc, i, {"CommentaryRef"}) \in {0, 1} })
    IN  [k \in 1..Len(kept) |-> doc[kept[k]]]

\* provision.parentNode.insertBefore(accordion, provision.nextSibling), one
\* accordion after the other.
RECURSIVE InsertAccordions(_, _)
InsertAccordions(doc, accordions) ==
    IF accordions = <<>> THEN doc
    ELSE LET p == CHOOSE i \in 1..Len(doc) : doc[i].nid = Head(accordions).provision
             e == SubtreeEnd(doc, p)
         IN  InsertAccordions(
                 SubSeq(doc, 1, e) \o Indent(Head(accordions).html, doc[p].depth)
                     \o SubSeq(doc, e + 1, Len(doc)),
                 Tail(accordions))

ExtractCommentary(doc, table) ==
    InsertAccordions(RemoveCommentaryRefs(doc), AccordionsToInsert(doc, table))

\* ---- the attribute filter ----

AllowedAttributes == {"class", "style", "href", "onclick", "data-ref"}

\* clone.querySelectorAll('*') lists the descendants of the clone, not the
\* clone itself.
FilterAttributes(doc) ==
    [i \in 1..Len(doc) |->
        IF i = 1 THEN doc[i]
        ELSE [doc[i] EXCEPT !.attrs = { a \in @ : a[1] \in AllowedAttributes }]]

\* ---- the references ----

ReferenceTags == {"Reference", "InternalLink", "Citation"}

\* ref.getAttribute('URI') || ref.getAttribute('Ref')
Href(node) ==
    IF GetAttribute(node, "URI") # "" THEN GetAttribute(node, "URI")
    ELSE GetAttribute(node, "Ref")

\* The anchor built for a reference, or the text node that replaces it.
Anchor(href, text, depth) ==
    << Element("a", depth,
               {<<"href", "#">>, <<"class", "internal-link">>, <<"data-ref", href>>}) >>
    \o (IF text = <<>> THEN <<>> ELSE <<TextNode(depth + 1, text)>>)

RECURSIVE ResolveReferences(_)
ResolveReferences(doc) ==
    LET references == { i \in 2..Len(doc) : doc[i].tag \in ReferenceTags }
    IN  IF references = {} THEN doc
        ELSE LET ref == CHOOSE i \in references : \A j \in references : i <= j
                 href == Href(doc[ref])
                 text == TextContent(doc, ref)
             IN  ResolveReferences(
                     ReplaceChild(doc, ref,
                         IF href # "" THEN Anchor(href, text, doc[ref].depth)
                         ELSE <<TextNode(doc[ref].depth, text)>>))

\* ---- the wrappers ----

tagsToFlatten ==
    <<"Substitution", "Addition", "Repeal", "Abbreviation",
      "Emphasis", "Strong", "SmallCaps", "Text", "Para">>

RECURSIVE FlattenTag(_, _)
FlattenTag(doc, tagName) ==
    LET elements == { i \in 2..Len(doc) : doc[i].tag = tagName }
    IN  IF elements = {} THEN doc
        ELSE LET el == CHOOSE i \in elements : \A j \in elements : i <= j
             IN  FlattenTag(
                     ReplaceChild(doc, el, <<TextNode(doc[el].depth, TextContent(doc, el))>>),
                     tagName)

RECURSIVE FlattenWrappers(_, _)
FlattenWrappers(doc, tags) ==
    IF tags = <<>> THEN doc
    ELSE FlattenWrappers(FlattenTag(doc, Head(tags)), Tail(tags))

\* ---- the markup ----

\* serializer.serializeToString(clone), as the markup reads: an empty text
\* node leaves no trace, neighbouring text nodes run together, and where a
\* node came from is not told.
RECURSIVE Serialize(_, _)
Serialize(done, rest) ==
    IF rest = <<>> THEN done
    ELSE LET n == [Head(rest) EXCEPT !.nid = 0]
         IN  IF n.tag = "#text" /\ n.text = <<>> THEN Serialize(done, Tail(rest))
             ELSE IF /\ n.tag = "#text"
                     /\ done # <<>>
                     /\ done[Len(done)].tag = "#text"
                     /\ done[Len(done)].depth = n.depth
             THEN Serialize([done EXCEPT ![Len(done)].text = @ \o n.text], Tail(rest))
             ELSE Serialize(Append(done, n), Tail(rest))

ProcessProvisionXML(fragment, table) ==
    Serialize(<<>>,
        FlattenWrappers(
            ResolveReferences(FilterAttributes(ExtractCommentary(fragment, table))),
            tagsToFlatten))

\* ---- the fragments the processor is given ----

\* A node sequence with every node numbered by its position.
Numbered(doc) == [i \in 1..Len(doc) |-> [doc[i] EXCEPT !.nid = i]]

TargetUri == "http://www.legislation.gov.uk/id/ukpga/2006/46/section/12"
TargetRef == "section-12"

\* What a reference element can carry: nothing, a URI, a Ref, or both.
ReferenceAttributes == SUBSET { <<"URI", TargetUri>>, <<"Ref", TargetRef>> }

\* Attributes of the source format on the fragment root and on a provision.
RootAttributes == SUBSET { <<"NumberOfProvisions", "1">> }
ProvisionAttributes ==
    SUBSET { <<"id", "section-1">>, <<"class", "LegP1">>, <<"onclick", "track()">> }

\* A Body with one P1: its number, and a paragraph that reads "See " and
\* then a reference element (refTag, "none": no reference) with the text
\* "section 12", the two inside the wrapper element when there is one
\* (wrapper, "none": directly in the paragraph).  A CommentaryRef to c1
\* sits inside the provision ("inside"), beside it ("outside") or nowhere.
Fragment(rootAttrs, provAttrs, wrapper, refTag, refAttrs, commentaryRef) ==
    LET d == IF wrapper = "none" THEN 3 ELSE 4
    IN  Numbered(
            << Element("Body", 0, rootAttrs),
               Element("P1", 1, provAttrs),
               Element("Pnumber", 2, {}),
               TextNode(3, <<"1">>),
               Element("P1para", 2, {}) >>
            \o (IF wrapper = "none" THEN <<>> ELSE <<Element(wrapper, 3, {})>>)
            \o (IF commentaryRef = "inside"
                THEN <<Element("CommentaryRef", d, {<<"Ref", "c1">>})>> ELSE <<>>)
            \o <<TextNode(d, <<"See ">>)>>
            \o (IF refTag = "none" THEN <<>>
                ELSE <<Element(refTag, d, refAttrs), TextNode(d + 1, <<"section 12">>)>>)
            \o (IF commentaryRef = "outside"
                THEN <<Element("CommentaryRef", 1, {<<"Ref", "c1">>})>> ELSE <<>>))

Fragments ==
    { Fragment(ra, pa, w, t, a, c) :
        ra \in RootAttributes, pa \in ProvisionAttributes,
        w \in {"none", "Text", "Substitution"},
        t \in ReferenceTags \cup {"none"}, a \in ReferenceAttributes,
        c \in {"none", "inside", "outside"} }

\* The Commentary elements of the fetched document: none, or c1 with one
\* of the type codes ("": no Type attribute).
CommentaryTables ==
    { {} } \cup
    { { [id |-> "c1", type |-> t, text |-> <<"Words substituted by 2015 c. 26">>] } :
        t \in {"F", "M", "I", "C", "X", ""} }

\* fetchProvision has parsed the fetched XML and found its Body.
InitProvision ==
    /\ body \in Fragments
    /\ commentaries \in CommentaryTables
    /\ processedContent = <<>>
    /\ ppPc = "parsed"

\* const processedContent = processProvisionXML(body, xmlDoc)
ProcessProvision ==
    /\ ppPc = "parsed"
    /\ processedContent' = ProcessProvisionXML(body, commentaries)
    /\ ppPc' = "done"
    /\ UNCHANGED <<body, commentaries, ppOthers>>

NextProvision == ProcessProvision

-----------------------------------------------------------------------------
(* legislationAPI.parseAtomFeed *)

\* The most entries a feed is drawn with.
MaxEntries == 2

\* LEGISLATION_BASE, as tokens.
LEGISLATION_BASE == <<"https://", "www.legislation.gov.uk">>

\* The path of one instrument below the origin.
InstrumentPath == <<"/ukpga/2006/46">>

\* What follows the instrument in a feed link: nothing, the contents page,
\* the enacted version or a dated version.
LinkSuffixes == { <<>>, <<"/contents">>, <<"/enacted">>, <<"/2026-01-06">> }

\* The href values of a feed link: empty, or the instrument with a suffix,
\* absolute over http or https or relative to the origin.
Hrefs ==
    { <<>> } \cup
    { origin \o InstrumentPath \o s :
        origin \in { <<"http://", "www.legislation.gov.uk">>,
                     <<"https://", "www.legislation.gov.uk">>, <<>> },
        s \in LinkSuffixes }

\* The link elements of an entry: none, a self link only, or the
\* alternate HTML link that the parser looks for.
SelfLink == [rel |-> "self", type |-> "application/atom+xml", href |-> <<"self">>]
AlternateLink(href) == [rel |-> "alternate", type |-> "text/html", href |-> href]

\* The text of a title element: <<>> when the entry has none, else blank
\* or a name between white space.
TitleTexts == { <<>>, <<" ">>, <<" ", "Companies Act 2006", " ">> }

Entries ==
    { [title |-> t, links |-> l] :
        t \in TitleTexts,
        l \in { <<>>, <<SelfLink>> } \cup { <<AlternateLink(h)>> : h \in Hrefs } }

\* Every feed of at most MaxEntries entries.
Feeds == UNION { [1..n -> Entries] : n \in 0..MaxEntries }

\* String.trim
RECURSIVE TrimStart(_)
TrimStart(s) == IF s # <<>> /\ Head(s) = " " THEN TrimStart(Tail(s)) ELSE s

RECURSIVE TrimEnd(_)
TrimEnd(s) ==
    IF s # <<>> /\ s[Len(s)] = " " THEN TrimEnd(SubSeq(s, 1, Len(s) - 1)) ELSE s

Trim(s) == TrimEnd(TrimStart(s))

\* entry.querySelector('link[rel="alternate"][type="text/html"]')
\*     ?.getAttribute('href') || ''
AlternateHref(entry) ==
    LET hits == { k \in 1..Len(entry.links) :
                    entry.links[k].rel = "alternate" /\ entry.links[k].type = "text/html" }
    IN  IF hits = {} THEN <<>>
        ELSE entry.links[CHOOSE k \in hits : \A j \in hits : k <= j].href

\* The cleaning of a link: http upgraded, a relative link resolved against
\* the origin, the first '/contents' removed.
NormalizeLink(href) ==
    LET secure == IF Head(href) = "http://" THEN <<"https://">> \o Tail(href) ELSE href
        absolute == IF Head(secure) \in {"http://", "https://"} THEN secure
                    ELSE LEGISLATION_BASE \o secure
    IN  ReplaceFirst(absolute, <<"/contents">>)

\* if (title && url) results.push({ title, url, ..., source: 'legislation' })
RECURSIVE ParseEntries(_, _)
ParseEntries(entries, pushed) ==
    IF entries = <<>> THEN pushed
    ELSE LET title == Trim(Head(entries).title)
             href == AlternateHref(Head(entries))
         IN  ParseEntries(Tail(entries),
                 IF title # <<>> /\ href # <<>>
                 THEN Append(pushed, [title |-> title, url |-> NormalizeLink(href),
                                       source |-> "legislation"])
                 ELSE pushed)

\* (variant) a parser that keeps one result per url.
RECURSIVE ParseEntriesOncePerUrl(_, _)
ParseEntriesOncePerUrl(entries, pushed) ==
    IF entries = <<>> THEN pushed
    ELSE LET title == Trim(Head(entries).title)
             href == AlternateHref(Head(entries))
         IN  ParseEntriesOncePerUrl(Tail(entries),
                 IF /\ title # <<>> /\ href # <<>>
                    /\ \A k \in 1..Len(pushed) : pushed[k].url # NormalizeLink(href)
                 THEN Append(pushed, [title |-> title, url |-> NormalizeLink(href),
                                      source |-> "legislation"])
                 ELSE pushed)

ParseAtomFeedOncePerUrl(entries) == ParseEntriesOncePerUrl(entries, <<>>)

\* parseAtomFeed(xml); the snippet of a result is left out.
ParseAtomFeed(entries) == ParseEntries(entries, <<>>)

\* search has received the feed.
InitFeed ==
    /\ feed \in Feeds
    /\ results = <<>>
    /\ feedPc = "received"

\* return this.parseAtomFeed(xml)
ParseFeed ==
    /\ feedPc = "received"
    /\ results' = ParseAtomFeed(feed)
    /\ feedPc' = "parsed"
    /\ UNCHANGED <<feed, feedOthers>>

NextFeed == ParseFeed

-----------------------------------------------------------------------------
(* DocumentViewer: the fetchTOC effect and fallbackTOCParsing *)

\* The most times the viewer is given another document.
MaxSwitches == 2

\* The saved documents the viewer can be given.  content lists the text of
\* the elements matching 'h1, h2, .LegP1GroupTitle, .LegHeading' in the
\* stored HTML, in document order; DocC was saved with empty content.
DocA ==
    [id |-> "A", url |-> BaseId,
     content |-> << <<" ", "Introductory", "[F3]">>, <<"General">> >>]
DocB ==
    [id |-> "B", url |-> <<"https://www.legislation.gov.uk/ukpga/2010/15">>,
     content |-> << <<"Equality">> >>]
DocC ==
    [id |-> "C", url |-> <<"https://www.legislation.gov.uk/ukpga/2018/12">>,
     content |-> <<>>]

SavedDocuments == {DocA, DocB, DocC}

\* tocUrl: the instrument of the document followed by /contents/data.xml.
TocUrl(doc) == doc.url \o <<"/contents/data.xml">>

\* The outline the server holds for a document: a section, then a Part
\* with one section, every element with a ContentRef of its own.
OutlineOf(doc) ==
    << [tag |-> "ContentsItem", depth |-> 1, ref |-> <<doc.id, "-section-1">>],
       [tag |-> "ContentsPart", depth |-> 1, ref |-> <<doc.id, "-part-1">>],
       [tag |-> "ContentsItem", depth |-> 2, ref |-> <<doc.id, "-section-2">>] >>

\* The Metadata element of that outline: document A has been revised.
MetadataOf(doc) ==
    [present |-> TRUE, enacted |-> TRUE, modified |-> doc.id = "A",
     unappliedEffects |-> FALSE, effects |-> 0]

\* What response.text() of the outline request can parse to: the outline
\* of the document, or a payload with neither Metadata nor Contents (an
\* HTML page, a parser error document).
OutlinePayloads(doc) ==
    { [metadata |-> MetadataOf(doc), contents |-> OutlineOf(doc)],
      [metadata |-> NoMetadata, contents |-> <<>>] }

\* The items fallbackTOCParsing builds from the headings of a document.
HeadingItems(doc) ==
    [k \in 1..Len(doc.content) |->
        TOCItem(<<"heading-", ToString(k - 1)>>, <<ToString(k)>>,
                Trim(StripMarkers(doc.content[k])), doc.url, <<>>, 0)]

NoLog == [outcome |-> "none"]

\* fetchTOC() of the effect on [document?.id], up to its await fetch; the
\* call keeps the document of the render it was made in (n tells the
\* calls apart).
FetchTOC(doc, n) ==
    /\ loadingTOC' = TRUE
    /\ tocPending' = tocPending \cup {[doc |-> doc, stage |-> "fetch", n |-> n]}

\* The viewer is mounted with a document; its effect has run.
InitOutline ==
    /\ document \in SavedDocuments
    /\ tocPending = {[doc |-> document, stage |-> "fetch", n |-> 0]}
    /\ loadingTOC = TRUE
    /\ tocLog = NoLog
    /\ switches = 0
    /\ metadata = NoMetadata
    /\ documentStatus = NoStatus

\* The application selects another saved document: the same viewer gets a
\* new document prop and the effect runs again.
SelectDocument ==
    \E doc \in SavedDocuments :
        /\ doc.id # document.id
        /\ switches < MaxSwitches
        /\ switches' = switches + 1
        /\ document' = doc
        /\ FetchTOC(doc, switches + 1)
        /\ UNCHANGED <<tocLog, documentStatus, tableOfContents, expandedItems, olOthers>>

\* catch: fallbackTOCParsing(); finally: setLoadingTOC(false)
FallbackTOCParsing(call) ==
    /\ tableOfContents' =
           IF call.doc.content = <<>> THEN tableOfContents ELSE HeadingItems(call.doc)
    /\ loadingTOC' = FALSE
    /\ tocPending' = tocPending \ {call}
    /\ tocLog' = [outcome |-> "failed", doc |-> call.doc]
    /\ UNCHANGED <<document, switches, documentStatus, expandedItems, olOthers>>

\* await fetch rejects, or !response.ok throws.
OutlineFetchFails ==
    \E call \in tocPending :
        /\ call.stage = "fetch"
        /\ FallbackTOCParsing(call)

\* await fetch resolves with response.ok.
OutlineFetchOk ==
    \E call \in tocPending :
        /\ call.stage = "fetch"
        /\ tocPending' = (tocPending \ {call}) \cup {[call EXCEPT !.stage = "text"]}
        /\ UNCHANGED <<document, switches, loadingTOC, tocLog, documentStatus,
                       tableOfContents, expandedItems, olOthers>>

\* await response.text() rejects.
OutlineTextRejects ==
    \E call \in tocPending :
        /\ call.stage = "text"
        /\ FallbackTOCParsing(call)

\* await response.text() resolves: the text is parsed, status and TOC are
\* set from it, the expanded items are cleared.
OutlineTextResolves ==
    \E call \in tocPending :
        \E xml \in OutlinePayloads(call.doc) :
            /\ call.stage = "text"
            /\ documentStatus' = ExtractStatusFromMetadata(xml.metadata, call.doc)
            /\ tableOfContents' = ParseTOCFromXML(xml.contents)
            /\ expandedItems' = {}
            /\ loadingTOC' = FALSE
            /\ tocPending' = tocPending \ {call}
            /\ tocLog' = [outcome |-> IF xml.contents = <<>> THEN "unusable" ELSE "parsed",
                          doc |-> call.doc]
            /\ UNCHANGED <<document, switches, olOthers>>

NextOutline ==
    \/ SelectDocument
    \/ OutlineFetchFails
    \/ OutlineFetchOk
    \/ OutlineTextRejects
    \/ OutlineTextResolves

-----------------------------------------------------------------------------
(* DocumentViewer: handleInternalLink *)

\* The targets an internal link can carry, digits as tokens of their own:
\* a section, article or regulation reference, a URI that names the
\* section with a slash, a reference to section 12.
LinkTargets ==
    { <<"section-", "1">>, <<"section-", "2">>, <<"ARTICLE-", "3">>,
      <<"http://www.legislation.gov.uk/id/ukpga/2006/46/", "section/", "1">>,
      <<"section-", "1", "2">>, <<"schedule-", "1", "-", "regulation-", "2">> }

DigitTokens == {"0", "1", "2", "3", "4", "5", "6", "7", "8", "9"}

\* The words of /section-(\d+)|article-(\d+)|regulation-(\d+)/i, in any case.
ReferenceWords ==
    {"section-", "article-", "regulation-", "SECTION-", "ARTICLE-", "REGULATION-"}

\* (\d+): the digits a sequence starts with.
RECURSIVE LeadingDigits(_)
LeadingDigits(s) ==
    IF s # <<>> /\ Head(s) \in DigitTokens
    THEN <<Head(s)>> \o LeadingDigits(Tail(s)) ELSE <<>>

\* sectionNum: the digits of the first match of the pattern in href, <<>>
\* when it does not match.
RECURSIVE SectionNum(_)
SectionNum(href) ==
    IF Len(href) < 2 THEN <<>>
    ELSE IF Head(href) \in ReferenceWords /\ href[2] \in DigitTokens
    THEN LeadingDigits(Tail(href))
    ELSE SectionNum(Tail(href))

\* s.includes(part)
StringIncludes(s, part) ==
    \E i \in 0..(Len(s) - Len(part)) : SubSeq(s, i + 1, i + Len(part)) = part

\* The tables of contents the link is activated in: those of the view, and
\* one that lists a Part only.
LinkTOCs == ViewerTOCs \cup { <<Part1>> }

\* The view shows a provision with an internal link to linkTarget.
InitLink ==
    /\ linkTarget \in LinkTargets
    /\ tableOfContents \in LinkTOCs
    /\ expandedItems = {}
    /\ selectedProvision = NoProvision
    /\ currentProvisionIndex = 0
    /\ provisionContent = NoContent
    /\ loadingProvision = FALSE
    /\ pending = {}
    /\ calls = 0

\* handleInternalLink(href)
HandleInternalLink ==
    LET sectionNum == SectionNum(linkTarget)
        found == { k \in 1..Len(flatProvisions) :
                     \/ flatProvisions[k].number = sectionNum
                     \/ StringIncludes(flatProvisions[k].id, sectionNum) }
    IN  IF sectionNum = <<>> \/ found = {}
        THEN UNCHANGED vars
        ELSE LET idx == CHOOSE k \in found : \A j \in found : k <= j
             IN  FetchProvision(flatProvisions[idx], idx - 1)

NextLink ==
    \/ HandleInternalLink
    \/ ProvisionFetchFails
    \/ ProvisionFetchOk
    \/ ProvisionTextRejects
    \/ ProvisionTextResolves

-----------------------------------------------------------------------------
(* DocumentViewer: the contents panel under a search query *)

\* What is typed into "Search provisions...": nothing, a blank, a word of
\* one title in either case, and a word of no title.  Every query is a
\* whole title or number of the tables of the model or part of none, so
\* that includes() is decided token by token.
SearchQueries == {"", " ", "Scope", "tax"}

\* s.trim() of a query
TrimQuery(q) == IF q = " " THEN "" ELSE q

\* s.toLowerCase() of a title, number or query
LowerCased(t) ==
    CASE t = "Overview" -> "overview"
      [] t = "Scope"    -> "scope"
      [] t = "Repeals"  -> "repeals"
      [] t = "General"  -> "general"
      [] t = "Part 1"   -> "part 1"
      [] OTHER          -> t

\* text.toLowerCase().includes(query)
IncludesQuery(text, query) == \E k \in 1..Len(text) : LowerCased(text[k]) = query

\* filterItems(items): the items that match or have a matching descendant,
\* each with its filtered children.
RECURSIVE FilterItems(_, _)
FilterItems(items, query) ==
    IF items = <<>> THEN <<>>
    ELSE LET item == Head(items)
             matches == IncludesQuery(item.title, query) \/ IncludesQuery(item.number, query)
             filteredChildren == FilterItems(item.children, query)
         IN  (IF matches \/ filteredChildren # <<>>
              THEN <<[item EXCEPT !.children = filteredChildren]>> ELSE <<>>)
             \o FilterItems(Tail(items), query)

filteredTOC ==
    IF TrimQuery(searchQuery) = "" THEN tableOfContents
    ELSE FilterItems(tableOfContents, LowerCased(searchQuery))

\* The clickable rows of the contents panel, which renders filteredTOC:
\* every root with the running globalIdx, and the children of the expanded
\* roots with globalIndex + 1 + idx.
FilteredRows ==
    { <<filteredTOC[i], StartIdx(filteredTOC, i)>> : i \in 1..Len(filteredTOC) }
    \cup
    UNION { { <<filteredTOC[i].children[j], StartIdx(filteredTOC, i) + 1 + (j - 1)>> :
                j \in 1..Len(filteredTOC[i].children) } :
            i \in { r \in 1..Len(filteredTOC) : filteredTOC[r].id \in expandedItems } }

\* The viewer is opened on a provision that links to section 2; nothing is
\* typed into the search box yet.
InitFilter ==
    /\ searchQuery = ""
    /\ linkTarget = <<"section-", "2">>
    /\ InitView

\* onChange of the search input: setSearchQuery(e.target.value)
SetSearchQuery ==
    \E q \in SearchQueries :
        /\ searchQuery' = q
        /\ UNCHANGED <<viewVars, filterOthers>>

\* A click on a row of the contents panel: fetchProvision(item, globalIndex).
ClickFilteredRow ==
    \E row \in FilteredRows : FetchProvision(row[1], row[2])

NextFilter ==
    \/ SetSearchQuery
    \/ ClickFilteredRow
    \/ ToggleExpand
    \/ NavigateProvision
    \/ HandleInternalLink
    \/ ProvisionFetchFails
    \/ ProvisionFetchOk
    \/ ProvisionTextRejects
    \/ ProvisionTextResolves

-----------------------------------------------------------------------------
(* storage and App: folders and saved documents *)

\* The largest number of ids crypto.randomUUID() hands out in a run.
MaxIds == 3

\* The largest number of handleSelectSearchResult calls that reach getDocument.
MaxLoads == 2

\* folderId: null and parentId: null
Null == "null"

\* The urls of the search results the user can pick.
ResultUrls == {"https://www.legislation.gov.uk/ukpga/2006/46",
               "https://www.legislation.gov.uk/ukpga/2010/15"}

defaultState == [folders |-> <<>>, documents |-> <<>>]

\* crypto.randomUUID(): an id never handed out before.
RandomUUID == ToString(uuids + 1)

FolderIds(st) == { st.folders[i].id : i \in 1..Len(st.folders) }
DocumentIds(st) == { st.documents[i].id : i \in 1..Len(st.documents) }

\* storage.addFolder(state, folder)
AddFolder(st, folder) == [st EXCEPT !.folders = Append(@, folder)]

\* storage.deleteFolder(state, folderId)
DeleteFolder(st, folderId) ==
    [ folders   |-> SelectSeq(st.folders, LAMBDA f : f.id # folderId),
      documents |-> [i \in 1..Len(st.documents) |->
                        IF st.documents[i].folderId = folderId
                        THEN [st.documents[i] EXCEPT !.folderId = Null]
                        ELSE st.documents[i]] ]

\* storage.addDocument(state, document)
AddDocument(st, doc) == [st EXCEPT !.documents = Append(@, doc)]

\* storage.updateDocument(state, documentId, { folderId })
MoveDocument(st, documentId, folderId) ==
    [st EXCEPT !.documents =
        [i \in 1..Len(@) |->
            IF @[i].id = documentId THEN [@[i] EXCEPT !.folderId = folderId] ELSE @[i]]]

\* storage.toggleFavorite(state, documentId)
ToggleFavorite(st, documentId) ==
    [st EXCEPT !.documents =
        [i \in 1..Len(@) |->
            IF @[i].id = documentId THEN [@[i] EXCEPT !.isFavorite = ~@] ELSE @[i]]]

\* storage.deleteDocument(state, documentId)
DeleteDocument(st, documentId) ==
    [st EXCEPT !.documents = SelectSeq(@, LAMBDA d : d.id # documentId)]

\* useState(() => storage.load()) with nothing stored yet.
InitApp ==
    /\ state = defaultState
    /\ stored = defaultState
    /\ selectedDocumentId = Null
    /\ loads = {}
    /\ loadsStarted = 0
    /\ uuids = 0

\* setState(newState) after a storage operation, which has saved newState.
SetState(newState) ==
    /\ state' = newState
    /\ stored' = newState

\* handleCreateFolder(name, parentId)
HandleCreateFolder ==
    \E parentId \in {Null} \cup FolderIds(state) :
        /\ uuids < MaxIds
        /\ uuids' = uuids + 1
        /\ SetState(AddFolder(state, [id |-> RandomUUID, parentId |-> parentId]))
        /\ UNCHANGED <<selectedDocumentId, loads, loadsStarted, appOthers>>

\* handleDeleteFolder(folderId), the confirm accepted
HandleDeleteFolder ==
    \E folderId \in FolderIds(state) :
        /\ SetState(DeleteFolder(state, folderId))
        /\ UNCHANGED <<selectedDocumentId, loads, loadsStarted, uuids, appOthers>>

\* handleToggleFavorite(documentId)
HandleToggleFavorite ==
    \E documentId \in DocumentIds(state) :
        /\ SetState(ToggleFavorite(state, documentId))
        /\ UNCHANGED <<selectedDocumentId, loads, loadsStarted, uuids, appOthers>>

\* handleMoveDocument(documentId, folderId), from the folder menu
HandleMoveDocument ==
    \E documentId \in DocumentIds(state), folderId \in {Null} \cup FolderIds(state) :
        /\ SetState(MoveDocument(state, documentId, folderId))
        /\ UNCHANGED <<selectedDocumentId, loads, loadsStarted, uuids, appOthers>>

\* handleDeleteDocument(documentId), the confirm accepted
HandleDeleteDocument ==
    \E documentId \in DocumentIds(state) :
        /\ SetState(DeleteDocument(state, documentId))
        /\ selectedDocumentId' = Null
        /\ UNCHANGED <<loads, loadsStarted, uuids, appOthers>>

\* handleSelectSearchResult(result) up to its await: a saved document with
\* the result's url is selected, otherwise getDocument is called; the call
\* keeps the state of the render it was made in.
HandleSelectSearchResult ==
    \E resultUrl \in ResultUrls :
        LET existing == { i \in 1..Len(state.documents) : state.documents[i].url = resultUrl }
        IN  IF existing # {}
            THEN /\ selectedDocumentId' =
                        state.documents[CHOOSE i \in existing : \A j \in existing : i <= j].id
                 /\ UNCHANGED <<state, stored, loads, loadsStarted, uuids, appOthers>>
            ELSE /\ loadsStarted < MaxLoads
                 /\ loadsStarted' = loadsStarted + 1
                 /\ loads' = loads \cup
                        {[n |-> loadsStarted + 1, url |-> resultUrl, state |-> state]}
                 /\ UNCHANGED <<state, stored, selectedDocumentId, uuids, appOthers>>

\* await legislationAPI.getDocument(result.url) resolves (it always does):
\* the new document is added to the state the call kept.
DocumentLoaded(call) ==
    /\ uuids < MaxIds
    /\ uuids' = uuids + 1
    /\ SetState(AddDocument(call.state,
            [id |-> RandomUUID, url |-> call.url, folderId |-> Null, isFavorite |-> FALSE]))
    /\ selectedDocumentId' = RandomUUID
    /\ loads' = loads \ {call}
    /\ UNCHANGED <<loadsStarted, appOthers>>

LoadResolves == \E call \in loads : DocumentLoaded(call)

NextApp ==
    \/ HandleCreateFolder
    \/ HandleDeleteFolder
    \/ HandleToggleFavorite
    \/ HandleMoveDocument
    \/ HandleDeleteDocument
    \/ HandleSelectSearchResult
    \/ LoadResolves

-----------------------------------------------------------------------------
(* Specifications, one per part of the engine *)

IdleTOC ==
    /\ xmlDoc = <<>>
    /\ tocPc = "idle"

IdleLink == linkTarget = <<>>

IdleFilter == searchQuery = ""

IdleApp ==
    /\ state = [folders |-> <<>>, documents |-> <<>>]
    /\ stored = [folders |-> <<>>, documents |-> <<>>]
    /\ selectedDocumentId = "null"
    /\ loads = {}
    /\ loadsStarted = 0
    /\ uuids = 0

IdleOutline ==
    /\ tocPending = {}
    /\ loadingTOC = FALSE
    /\ tocLog = NoLog
    /\ switches = 0

IdleFeed ==
    /\ feed = <<>>
    /\ results = <<>>
    /\ feedPc = "idle"

IdleProvision ==
    /\ body = <<>>
    /\ commentaries = {}
    /\ processedContent = <<>>
    /\ ppPc = "idle"

IdleView ==
    /\ tableOfContents = <<>>
    /\ expandedItems = {}
    /\ selectedProvision = NoProvision
    /\ currentProvisionIndex = 0
    /\ provisionContent = NoContent
    /\ loadingProvision = FALSE
    /\ pending = {}
    /\ calls = 0

IdleStatus ==
    /\ document = [id |-> "A", url |-> BaseId]
    /\ metadata = NoMetadata
    /\ documentStatus = NoStatus

StartGetDocument == InitGetDocument /\ IdleStatus /\ IdleView /\ IdleTOC /\ IdleProvision /\ IdleFeed /\ IdleOutline /\ IdleLink /\ IdleApp /\ IdleFilter
SpecGetDocument == StartGetDocument /\ [][NextGetDocument]_vars

StartStatus == InitStatus /\ InitGetDocument /\ IdleView /\ IdleTOC /\ IdleProvision /\ IdleFeed /\ IdleOutline /\ IdleLink /\ IdleApp /\ IdleFilter
SpecStatus == StartStatus /\ [][NextStatus]_vars

StartView == InitView /\ InitGetDocument /\ IdleStatus /\ IdleTOC /\ IdleProvision /\ IdleFeed /\ IdleOutline /\ IdleLink /\ IdleApp /\ IdleFilter
SpecView == StartView /\ [][NextView]_vars

StartTOC == InitTOC /\ IdleView /\ InitGetDocument /\ IdleStatus /\ IdleProvision /\ IdleFeed /\ IdleOutline /\ IdleLink /\ IdleApp /\ IdleFilter
SpecTOC == StartTOC /\ [][NextTOC]_vars

StartProvision == InitProvision /\ IdleView /\ InitGetDocument /\ IdleStatus /\ IdleTOC /\ IdleFeed /\ IdleOutline /\ IdleLink /\ IdleApp /\ IdleFilter
SpecProvision == StartProvision /\ [][NextProvision]_vars

StartFeed ==
    InitFeed /\ IdleView /\ InitGetDocument /\ IdleStatus /\ IdleTOC /\ IdleProvision
        /\ IdleOutline /\ IdleLink /\ IdleApp /\ IdleFilter
SpecFeed == StartFeed /\ [][NextFeed]_vars

StartOutline ==
    InitOutline /\ IdleView /\ InitGetDocument /\ IdleTOC /\ IdleProvision /\ IdleFeed
        /\ IdleLink /\ IdleApp /\ IdleFilter
SpecOutline == StartOutline /\ [][NextOutline]_vars

StartLink ==
    InitLink /\ InitGetDocument /\ IdleStatus /\ IdleTOC /\ IdleProvision /\ IdleFeed
        /\ IdleOutline /\ IdleApp /\ IdleFilter
SpecLink == StartLink /\ [][NextLink]_vars

StartApp ==
    InitApp /\ InitGetDocument /\ IdleStatus /\ IdleView /\ IdleTOC /\ IdleProvision
        /\ IdleFeed /\ IdleOutline /\ IdleLink /\ IdleFilter
SpecApp == StartApp /\ [][NextApp]_vars

StartMixedTOC ==
    InitMixedTOC /\ IdleView /\ InitGetDocument /\ IdleStatus /\ IdleProvision /\ IdleFeed
        /\ IdleOutline /\ IdleLink /\ IdleApp /\ IdleFilter
SpecMixedTOC == StartMixedTOC /\ [][NextTOC]_vars

StartFilter ==
    InitFilter /\ InitGetDocument /\ IdleStatus /\ IdleTOC /\ IdleProvision /\ IdleFeed
        /\ IdleOutline /\ IdleApp
SpecFilter == StartFilter /\ [][NextFilter]_vars

-----------------------------------------------------------------------------
(* Claims about getDocument *)

\* The outcomes that reject a candidate and let the loop go on.
Rejections == {"notok", "interstitial", "noselector", "invalid"}

\* The candidate order the specification requires: the base identifier,
\* then its enacted version, then its contents page.
RequiredOrder(b) == <<b, b \o <<"/enacted">>, b \o <<"/contents">>>>

\* C1: the candidates are fetched only in the order base, base/enacted,
\* base/contents; a candidate is fetched only after every earlier one has
\* been fetched and rejected; at most one fetch is in flight at any time.
C1_CandidateOrder ==
    /\ Len(fetched) <= 3
    /\ \A i \in 1..Len(fetched) : fetched[i].cand = RequiredOrder(CleanUrl(url))[i]
    /\ \A i \in 1..(Len(fetched) - 1) : fetched[i].outcome \in Rejections
    /\ Cardinality(inFlight) <= 1
    /\ \A c \in inFlight :
          /\ fetched # <<>>
          /\ c = fetched[Len(fetched)].cand
          /\ fetched[Len(fetched)].outcome = "pending"

\* C1 witness: the third candidate is in flight after two rejections.
C1_Witness ==
    /\ Len(fetched) = 3
    /\ inFlight = {CleanUrl(url) \o <<"/contents">>}
    /\ url # baseUrl

\* C2: once a candidate is accepted getDocument has returned exactly that
\* candidate's cleaned content, nothing is in flight and nothing more is
\* fetched: with the k-th candidate accepted, exactly k fetches were made,
\* the first k-1 of them rejected.
C2_EarlyExit ==
    result.kind = "success" =>
        /\ gdPc = "done"
        /\ inFlight = {}
        /\ fetched # <<>>
        /\ fetched[Len(fetched)].outcome = "accepted"
        /\ result.html.from = fetched[Len(fetched)].cand
        /\ \A i \in 1..Len(fetched) :
              fetched[i].outcome = "accepted" => i = Len(fetched)
        /\ \A i \in 1..(Len(fetched) - 1) : fetched[i].outcome \in Rejections
        /\ ~ENABLED NextGetDocument

\* C2 witness: the third candidate is accepted after two rejections.
C2_Witness ==
    /\ result.kind = "success"
    /\ Len(fetched) = 3
    /\ result.html.from = baseUrl \o <<"/contents">>

\* C3 (as claimed): whatever the candidates' outcomes, getDocument returns
\* rather than throws, and when every candidate has failed or been rejected
\* what it returns is a failure payload that references the cleaned base URL.
C3_GracefulExhaustion ==
    gdPc = "done" =>
        /\ result.kind \in {"success", "allFailed", "error"}
        /\ ( /\ Len(fetched) = 3
             /\ \A i \in 1..3 : fetched[i].outcome \in Rejections \cup {"threw"} )
           => /\ result.kind \in {"allFailed", "error"}
              /\ result.href = baseUrl

\* C4: a body that holds all three marker phrases and is under the size
\* threshold is never returned as content, whether or not a selector matches
\* it: its candidate is rejected as an interstitial and the loop moves on
\* (to the next fetch, or to the all-failed page after the last candidate).
C4_InterstitialRejected ==
    (seen.markers /\ seen.small) =>
        /\ result.kind # "success"
        /\ \E k \in 1..Len(fetched) :
              /\ fetched[k].outcome = "interstitial"
              /\ \/ k = Len(fetched) - 1 /\ fetched[k + 1].outcome = "pending"
                 \/ k = Len(fetched) /\ k = 3 /\ result.kind = "allFailed"

\* C4 witness: an interstitial that a content selector matches with enough
\* text was read, and the next candidate is being fetched.
C4_Witness ==
    /\ seen.markers /\ seen.small /\ seen.matched
    /\ gdPc = "fetch"

-----------------------------------------------------------------------------
(* Claims about the status classifier *)

FiveLabels ==
    {"As Enacted", "Revised", "Revised (Changes Pending)", "Latest Available", "Unknown"}

\* The document URL carries the 'enacted' marker.
UrlHasEnactedMarker == \E i \in 1..Len(document.url) : document.url[i] \in {"/enacted", "/Enacted"}

\* C6 (as claimed): whatever the metadata, an absent block included, a
\* document whose URL carries the 'enacted' marker is classified As Enacted.
C6_EnactedUrlFirst ==
    (documentStatus # NoStatus /\ UrlHasEnactedMarker) => documentStatus.label = "As Enacted"

\* C7: the classifier returns one of the five statuses for every input, and
\* for a URL without the 'enacted' marker: Revised (Changes Pending) when
\* the metadata holds an unapplied effect, even beside a Modified timestamp;
\* otherwise Revised when it holds a Modified timestamp; otherwise Latest
\* Available when it is present; Unknown when it is absent.
C7_DecisionOrder ==
    documentStatus # NoStatus =>
        /\ documentStatus.label \in FiveLabels
        /\ ~UrlHasEnactedMarker =>
              documentStatus.label =
                 CASE ~metadata.present -> "Unknown"
                   [] metadata.present /\ metadata.unappliedEffects /\ metadata.effects >= 1
                        -> "Revised (Changes Pending)"
                   [] metadata.present /\ ~(metadata.unappliedEffects /\ metadata.effects >= 1)
                        /\ metadata.modified -> "Revised"
                   [] OTHER -> "Latest Available"

\* C7 witness: an unapplied effect beside a Modified timestamp was classified.
C7_Witness ==
    /\ documentStatus.label = "Revised (Changes Pending)"
    /\ metadata.present /\ metadata.modified /\ metadata.effects = MaxEffects
    /\ ~UrlHasEnactedMarker

-----------------------------------------------------------------------------
(* Claims about the provision view *)

\* content is what fetchProvision shows for item: its processed XML, the
\* not-available notice, or the failure block linking to it.
ResultFor(item, content) ==
    \/ content = Processed(item)
    \/ content = NotAvailable
    \/ content = UnableToLoad(item)

\* C5 (as claimed): when fetchProvision was started for one provision and
\* then for another, once every fetch has resolved the content shown is the
\* result for the provision selected last; a response for an earlier
\* selection never stays over it.
C5_LastRequestWins ==
    (calls >= 2 /\ pending = {} /\ selectedProvision.url # <<>>) =>
        ResultFor(selectedProvision, provisionContent)

-----------------------------------------------------------------------------
(* C8: the order of the TOC passes *)

\* The outline element a TOC item was built from, told by its DocumentURI.
SourceOf(item) == CHOOSE i \in 1..Len(xmlDoc) : DocumentURI(i) = item.url

\* Bare items read before Parts, Parts before Schedules.
ShapeRank(item) ==
    CASE xmlDoc[SourceOf(item)].tag = "ContentsItem" -> 1
      [] xmlDoc[SourceOf(item)].tag = "ContentsPart" -> 2
      [] xmlDoc[SourceOf(item)].tag = "ContentsSchedule" -> 3
      [] OTHER -> 0

\* The elements that are a container's own nested items: its ContentsItem
\* children and those of its ContentsPblock children.
OwnNestedItems(p) ==
    { j \in 1..Len(xmlDoc) :
        /\ xmlDoc[j].tag = "ContentsItem"
        /\ \/ Parent(xmlDoc, j) = p
           \/ /\ TagOf(xmlDoc, Parent(xmlDoc, j)) = "ContentsPblock"
              /\ Parent(xmlDoc, Parent(xmlDoc, j)) = p }

\* The sources of a sequence of items are in document order, none twice.
InSourceOrder(items) ==
    \A a, b \in 1..Len(items) : a < b => SourceOf(items[a]) < SourceOf(items[b])

RootSources == { SourceOf(tableOfContents[k]) : k \in 1..Len(tableOfContents) }

\* C8: the roots of the built TOC are every bare top-level item, then every
\* Part, then every Schedule, each shape in source order whatever the order
\* of the shapes in the outline; a Part or Schedule carries exactly its own
\* nested items, in source order, one level down; and none of those items
\* is also a root.
C8_PassOrdering ==
    tocPc = "built" =>
        LET toc == tableOfContents
        IN  /\ \A k \in 1..Len(toc) : toc[k].url # <<>> /\ toc[k].level = 0
            /\ RootSources =
                   { i \in 1..Len(xmlDoc) :
                       \/ xmlDoc[i].tag = "ContentsItem" /\ Parent(xmlDoc, i) = 0
                       \/ xmlDoc[i].tag \in {"ContentsPart", "ContentsSchedule"} }
            /\ \A a, b \in 1..Len(toc) :
                   a < b =>
                       \/ ShapeRank(toc[a]) < ShapeRank(toc[b])
                       \/ /\ ShapeRank(toc[a]) = ShapeRank(toc[b])
                          /\ SourceOf(toc[a]) < SourceOf(toc[b])
            /\ \A k \in 1..Len(toc) :
                   LET kids == toc[k].children
                   IN  /\ InSourceOrder(kids)
                       /\ { SourceOf(kids[c]) : c \in 1..Len(kids) } =
                              IF ShapeRank(toc[k]) = 1 THEN {}
                              ELSE OwnNestedItems(SourceOf(toc[k]))
                       /\ \A c \in 1..Len(kids) :
                              /\ kids[c].level = 1
                              /\ kids[c].children = <<>>
                              /\ SourceOf(kids[c]) \notin RootSources

\* The outline lists a Schedule with one item, then a Part with one item,
\* then a bare item; the TOC reads bare item, Part, Schedule.
C8_Witness ==
    /\ tocPc = "built"
    /\ [i \in 1..Len(xmlDoc) |-> <<xmlDoc[i].tag, xmlDoc[i].depth>>] =
           << <<"ContentsSchedule", 1>>, <<"ContentsItem", 2>>,
              <<"ContentsPart", 1>>, <<"ContentsItem", 2>>,
              <<"ContentsItem", 1>> >>
    /\ [k \in 1..Len(tableOfContents) |-> SourceOf(tableOfContents[k])] = <<5, 3, 1>>
    /\ [c \in 1..Len(tableOfContents[2].children) |->
           SourceOf(tableOfContents[2].children[c])] = <<4>>
    /\ Len(tableOfContents[3].children) = 1

-----------------------------------------------------------------------------
(* C9, C10: the markup of a provision *)

\* The allow-list of the specification: class, style, the link target and
\* the reference tag.
SpecifiedAttributes == {"class", "style", "href", "data-ref"}

\* C9: once a fragment is processed, no element of the markup carries an
\* attribute outside the allow-list, whatever attributes the fragment had
\* and whether the fragment or the processor brought the element.
C9_AttributeAllowList ==
    ppPc = "done" =>
        \A k \in 1..Len(processedContent) :
            \A a \in processedContent[k].attrs : a[1] \in SpecifiedAttributes

\* The anchors of the markup that are tagged with target and show text.
AnchorsFor(target, text) ==
    { k \in 1..Len(processedContent) :
        /\ processedContent[k].tag = "a"
        /\ <<"data-ref", target>> \in processedContent[k].attrs
        /\ TextContent(processedContent, k) = text }

\* C10: every Reference, InternalLink or Citation of the fragment that has
\* a target (URI, else Ref) is in the markup as an anchor tagged with that
\* target and showing the element's text; only one without a target is
\* plain text.
C10_ReferencesResolved ==
    ppPc = "done" =>
        \A i \in 2..Len(body) :
            (body[i].tag \in ReferenceTags /\ Href(body[i]) # "") =>
                AnchorsFor(Href(body[i]), TextContent(body, i)) # {}

-----------------------------------------------------------------------------
(* C11: the amendment notes of a provision *)

\* The amendment notes of the markup: its accordions.
AmendmentNotes ==
    { k \in 1..Len(processedContent) :
        /\ processedContent[k].tag = "div"
        /\ <<"class", "amendment-accordion">> \in processedContent[k].attrs }

\* The kind a note is shown with: the caption of its button.
NoteKind(k) == TextContent(processedContent, k + 1)

CommentaryRefsOf(doc) == { i \in 1..Len(doc) : doc[i].tag = "CommentaryRef" }

\* C11 (as claimed): a fragment with one commentary reference to a
\* commentary of type F leaves no CommentaryRef in the markup and gives
\* exactly one note, of the textual kind, wherever the reference sits.
C11_AmendmentSeparation ==
    ( /\ ppPc = "done"
      /\ Cardinality(CommentaryRefsOf(body)) = 1
      /\ \E c \in commentaries : c.id = "c1" /\ c.type = "F" ) =>
        /\ CommentaryRefsOf(processedContent) = {}
        /\ Cardinality(AmendmentNotes) = 1
        /\ \A k \in AmendmentNotes : NoteKind(k) = <<"Textual Amendment">>

-----------------------------------------------------------------------------
(* C12, C14: the identifier getDocument derives *)

C14_SameBaseUrl ==
    (gdPc # "idle" /\ url \in {BaseId} \cup {BaseId \o s : s \in Suffixes}) =>
        /\ baseUrl = BaseId
        /\ \A k \in 1..Len(fetched) : fetched[k].cand = RequiredOrder(BaseId)[k]

-----------------------------------------------------------------------------
(* C13, C15: the results of a feed *)

\* C13 (as claimed): links to one instrument that differ only by a
\* /contents suffix, a version or date segment, or http against https give
\* the same url, and every url is an https one.
C13_CanonicalUrl ==
    feedPc = "parsed" =>
        /\ \A k \in 1..Len(results) : Head(results[k].url) = "https://"
        /\ \A j, k \in 1..Len(results) : results[j].url = results[k].url

\* A complete entry: a title that is not blank and an alternate HTML link
\* with a target.
Complete(entry) ==
    /\ Trim(entry.title) # <<>>
    /\ \E k \in 1..Len(entry.links) :
          /\ entry.links[k].rel = "alternate"
          /\ entry.links[k].type = "text/html"
          /\ entry.links[k].href # <<>>

\* C15: the results are the complete entries of the feed, one result each,
\* in feed order, none dropped for sharing its url with another; an entry
\* without title and link gives no result.
C15_Emission ==
    feedPc = "parsed" =>
        LET complete == SelectSeq(feed, Complete)
        IN  /\ Len(results) = Len(complete)
            /\ \A k \in 1..Len(results) :
                  /\ results[k].title = <<"Companies Act 2006">>
                  /\ \E l \in 1..Len(complete[k].links) :
                        results[k].url = NormalizeLink(complete[k].links[l].href)
            /\ (\A k \in 1..Len(feed) : feed[k].title = <<>> /\ feed[k].links = <<>>) =>
                   results = <<>>

\* Two complete entries, the second linking to the contents page of the
\* first: both are results, with one url.
C15_Witness ==
    /\ feedPc = "parsed"
    /\ Len(feed) = 2
    /\ Complete(feed[1]) /\ Complete(feed[2])
    /\ feed[1].links # feed[2].links
    /\ Len(results) = 2
    /\ results[1].url = results[2].url

-----------------------------------------------------------------------------
(* C16, C17: the table of contents of the open document *)

\* C16 (as claimed): when a fetchTOC call ended without a usable outline,
\* its fetch having failed or its payload holding no outline, the table of
\* contents is the heading reconstruction of its document.
C16_FallbackOnUnusableOutline ==
    tocLog.outcome \in {"failed", "unusable"} =>
        tableOfContents = HeadingItems(tocLog.doc)

\* What fetchTOC can leave for a document: the TOC of its outline, of its
\* headings, or none; the status of its metadata, "Unknown", or none.
TOCsOf(doc) == { ParseTOCFromXML(OutlineOf(doc)), HeadingItems(doc), <<>> }
StatusesOf(doc) ==
    { ExtractStatusFromMetadata(MetadataOf(doc), doc),
      ExtractStatusFromMetadata(NoMetadata, doc), NoStatus }

\* C17 (as claimed): once the document was switched and no outline fetch
\* is pending, table of contents and status are those of the document the
\* viewer shows.
C17_OwnedByOpenDocument ==
    (switches > 0 /\ tocPending = {}) =>
        /\ tableOfContents \in TOCsOf(document)
        /\ documentStatus \in StatusesOf(document)

-----------------------------------------------------------------------------
(* C18: a provision without a DocumentURI *)

\* C18: a step that selects a provision with an empty url issues no fetch
\* and ends with the failure block for that provision as content, the
\* loading flag down, the table of contents and the expanded items as they
\* were.
C18_MissingIdentifier ==
    [][ (selectedProvision' # selectedProvision /\ selectedProvision'.url = <<>>) =>
            /\ pending' = pending
            /\ calls' = calls
            /\ provisionContent' = UnableToLoad(selectedProvision')
            /\ loadingProvision' = FALSE
            /\ tableOfContents' = tableOfContents
            /\ expandedItems' = expandedItems ]_vars

\* The first provision asked for has no url: nothing was fetched, the
\* failure block is shown and the table of contents still holds its items.
C18_Witness ==
    /\ calls = 0
    /\ pending = {}
    /\ selectedProvision = Section3(1)
    /\ provisionContent = UnableToLoad(Section3(1))
    /\ ~loadingProvision
    /\ tableOfContents = <<Section1, Part1>>


-----------------------------------------------------------------------------
(* C19: cross-reference navigation *)

\* C19: activating an internal link loads a provision only when the number
\* of some node of the table of contents equals the number extracted from
\* the link's target, and the provision loaded is such a node; when no
\* node's number equals it the click is inert: no fetch is issued and the
\* selected provision, its index and its content stay as they were.
C19_LinkLoadsNumberedNode ==
    LET sectionNum == SectionNum(linkTarget)
        numbered == { k \in 1..Len(flatProvisions) :
                        sectionNum # <<>> /\ flatProvisions[k].number = sectionNum }
    IN  /\ selectedProvision # NoProvision =>
               /\ numbered # {}
               /\ selectedProvision.number = sectionNum
        /\ numbered = {} =>
               /\ calls = 0
               /\ pending = {}
               /\ selectedProvision = NoProvision
               /\ currentProvisionIndex = 0
               /\ provisionContent = NoContent


-----------------------------------------------------------------------------
(* C20: what a failed provision load touches *)

\* The payloads shown when a provision could not be loaded.
FailurePayloads == {"failure", "unavailable"}

\* A step in which a load ends in failure: a suspended call settles with a
\* failure payload, or a call without URL fails on the spot.
FailureLands ==
    /\ provisionContent'.kind \in FailurePayloads
    /\ \/ pending' # pending /\ pending' \subseteq pending
       \/ pending' = pending /\ provisionContent' # provisionContent

\* C20: a failed provision fetch or parse (rejected fetch, non-success
\* status, rejected body, no Body/Schedules root, no URL) changes only the
\* provision view: the table of contents, the expanded items, the document
\* and its status stay as they were and no other call in flight is dropped;
\* a fetchProvision for a node with a URL made while a failure is shown
\* issues its request, and a call whose body arrives with a Body/Schedules
\* root shows that node's processed content whatever was shown before.
C20_ErrorScoping ==
    [][ /\ FailureLands =>
              /\ tableOfContents' = tableOfContents
              /\ expandedItems' = expandedItems
              /\ documentStatus' = documentStatus
              /\ metadata' = metadata
              /\ document' = document
              /\ calls' = calls
              /\ Cardinality(pending \ pending') <= 1
        /\ (provisionContent.kind \in FailurePayloads /\ selectedProvision' # selectedProvision
                /\ selectedProvision'.url # <<>>) =>
              /\ loadingProvision'
              /\ \E call \in pending' \ pending :
                    call.item = selectedProvision' /\ call.stage = "fetch"
        /\ \A call \in pending \ pending' :
              (call.stage = "text" /\ provisionContent'.kind \notin FailurePayloads) =>
                  /\ provisionContent' = Processed(call.item)
                  /\ ~loadingProvision' ]_vars

\* A fetch for section 1 has failed with the Part expanded: the panel is
\* as it was, and the call made afterwards for section 2 is in flight.
C20_Witness ==
    /\ tableOfContents = <<Section1, Part1>>
    /\ expandedItems = {Part1.id}
    /\ provisionContent = UnableToLoad(Section1)
    /\ selectedProvision = Section2(1)
    /\ loadingProvision
    /\ pending = {[n |-> 2, item |-> Section2(1), stage |-> "text"]}


-----------------------------------------------------------------------------
(* C21: transport failures inside the strategy loop *)

\* C21: when the fetch of a candidate that is not the last one fails, by a
\* non-success status or by the fetch itself rejecting, getDocument goes on
\* to fetch the next candidate and has returned nothing yet.
C21_TransportFailureContinues ==
    [][ ( /\ gdPc = "fetch"
          /\ strategyIdx < Len(Strategies(baseUrl))
          /\ fetched'[strategyIdx].outcome \in {"notok", "threw"} ) =>
            /\ gdPc' = "fetch"
            /\ strategyIdx' = strategyIdx + 1
            /\ inFlight' = {Strategies(baseUrl)[strategyIdx + 1]}
            /\ result' = NoResult ]_vars


-----------------------------------------------------------------------------
(* C22: the two-part version-selection test *)

\* C22: a candidate is rejected as a version-selection page only if its body
\* holds all three marker phrases and its raw size is below the threshold;
\* a body at or above the threshold, or lacking one of the phrases, is
\* never rejected as one.
C22_DualInterstitialTest ==
    [][ (gdPc = "text" /\ fetched'[strategyIdx].outcome = "interstitial") =>
            seen'.markers /\ seen'.small ]_vars


-----------------------------------------------------------------------------
(* C23: what getDocument returns as success *)

\* C23: every content getDocument returns as success was chosen by a
\* selector whose element has more text than the minimum, is longer than
\* the minimum after the unwanted elements are removed, and does not hold
\* the marker phrases of the version-selection page.
C23_AcceptedContentValid ==
    result.kind = "success" =>
        /\ result.html.selector \in 1..Len(selectors)
        /\ seen.matched
        /\ result.html.len > MinContentLength
        /\ ~result.html.markers


-----------------------------------------------------------------------------
(* C24: the transformations of processProvisionXML, in other orders *)

\* The four transformations, by name.
Transforms == {"commentary", "attributes", "references", "wrappers"}

ApplyTransform(name, doc, table) ==
    CASE name = "commentary" -> ExtractCommentary(doc, table)
      [] name = "attributes" -> FilterAttributes(doc)
      [] name = "references" -> ResolveReferences(doc)
      [] name = "wrappers"   -> FlattenWrappers(doc, tagsToFlatten)

RECURSIVE ApplyInOrder(_, _, _)
ApplyInOrder(order, doc, table) ==
    IF order = <<>> THEN doc
    ELSE ApplyInOrder(Tail(order), ApplyTransform(Head(order), doc, table), table)

\* Every order in which the four can be applied.
TransformOrders ==
    { order \in [1..4 -> Transforms] : \A i, j \in 1..4 : order[i] = order[j] => i = j }

\* C24: the four transformations give the markup processProvisionXML
\* returned in whatever order they are applied to the fragment, and each of
\* them applied a second time changes nothing.
C24_OrderIndependent ==
    ppPc = "done" =>
        /\ \A order \in TransformOrders :
              Serialize(<<>>, ApplyInOrder(order, body, commentaries)) = processedContent
        /\ \A name \in Transforms :
              LET once == ApplyTransform(name, body, commentaries)
              IN  ApplyTransform(name, once, commentaries) = once


-----------------------------------------------------------------------------
(* C25: the kind of a commentary note *)

\* The commentary blocks the fragment refers to, one per reference.
ReferencedCommentaries ==
    { <<i, c>> \in CommentaryRefsOf(body) \X commentaries :
        c.id = GetAttribute(body[i], "Ref") }

\* The caption each type code is to be shown with.
KindOfType(type) ==
    IF type \in {"F", "M"} THEN <<"Textual Amendment">>
    ELSE IF type \in {"I", "C"} THEN <<"Commencement Information">>
    ELSE <<"Note">>

\* C25: every commentary block the fragment refers to gives one note, none
\* is dropped, and the note's kind follows from the type code: F and M
\* textual, I and C commencement, any other or missing code the third kind.
C25_CommentaryClassification ==
    ppPc = "done" =>
        /\ Cardinality(AmendmentNotes) = Cardinality(ReferencedCommentaries)
        /\ \A rc \in ReferencedCommentaries :
              \E k \in AmendmentNotes :
                  /\ NoteKind(k) = KindOfType(rc[2].type)
                  /\ TextContent(processedContent, k + 12) = rc[2].text


-----------------------------------------------------------------------------
(* C26: folder deletion and the references to folders *)

\* Every folderId and every parentId is null or the id of a folder of st.
ReferencesValid(st) ==
    /\ \A i \in 1..Len(st.documents) :
          st.documents[i].folderId \in {Null} \cup FolderIds(st)
    /\ \A i \in 1..Len(st.folders) :
          st.folders[i].parentId \in {Null} \cup FolderIds(st)

\* C26: deleteFolder(f) removes folder f, unfiles exactly the documents
\* that were in f and leaves every other folder and document as it was;
\* and in every state reached by creating and deleting folders and adding,
\* moving and deleting documents, every document's folderId and every
\* folder's parentId is null or the id of an existing folder.
C26_FolderDeletion ==
    /\ \A f \in FolderIds(state) :
          LET after == DeleteFolder(state, f)
          IN  /\ after.folders = SelectSeq(state.folders, LAMBDA x : x.id # f)
              /\ Len(after.documents) = Len(state.documents)
              /\ \A i \in 1..Len(state.documents) :
                    after.documents[i] =
                        IF state.documents[i].folderId = f
                        THEN [state.documents[i] EXCEPT !.folderId = Null]
                        ELSE state.documents[i]
    /\ ReferencesValid(state)
    /\ ReferencesValid(stored)


-----------------------------------------------------------------------------
(* C27: changes made while a document is loading *)

\* C27: when a load ends, the state it leaves is the state as it was just
\* before, changes made during the load included, with the loaded document
\* added: the folders, the other documents, their folders and favourite
\* marks are kept, and a document deleted meanwhile stays deleted.
C27_NoLostUpdates ==
    [][ (loads' # loads /\ loads' \subseteq loads) =>
            /\ state'.folders = state.folders
            /\ Len(state'.documents) = Len(state.documents) + 1
            /\ SubSeq(state'.documents, 1, Len(state.documents)) = state.documents
            /\ stored' = state' ]_vars


-----------------------------------------------------------------------------
(* C28: the index of the provision shown *)

\* C28: once a provision has been selected, by a click in the contents
\* panel (filtered or not), by Previous/Next or by an internal link,
\* currentProvisionIndex lies within flatProvisions and the provision at
\* that index is the selected one.
C28_IndexOfSelected ==
    selectedProvision # NoProvision =>
        /\ currentProvisionIndex \in 0..(Len(flatProvisions) - 1)
        /\ flatProvisions[currentProvisionIndex + 1].id = selectedProvision.id


-----------------------------------------------------------------------------
(* C29: the loading flag of the provision view *)

\* C29: loadingProvision is true in every state in which a fetch started
\* by fetchProvision has not settled yet, the one for the selected
\* provision included, and false once all of them have settled.
C29_LoadingFlag ==
    /\ pending # {} => loadingProvision
    /\ pending = {} => ~loadingProvision


-----------------------------------------------------------------------------
(* C30: the ids of a table of contents *)

\* C30: in the table of contents parseTOCFromXML builds, roots and
\* children together carry pairwise distinct ids, also when some elements
\* of the outline carry a ContentRef and the others get an id synthesized
\* from their position.
C30_DistinctIds ==
    tocPc = "built" =>
        \A i, j \in 1..Len(flatProvisions) :
            flatProvisions[i].id = flatProvisions[j].id => i = j

=============================================================================
